---------------------------- MODULE Spec2Model ----------------------------
(***************************************************************************)
(* Content-acquisition subsystem of ai-web-chat: the renderer pool         *)
(* (BrowserPool), the cache helpers over the Redis store and the           *)
(* per-URL scrape orchestrator (scrapeWebContent).                         *)
(*                                                                         *)
(* Every `await` of the source is a step boundary: one action is the       *)
(* synchronous code that runs between two awaits of one call.              *)
(***************************************************************************)
EXTENDS Integers, Sequences, FiniteSets, TLC

(***************************************************************************)
(* Program constants                                                       *)
(***************************************************************************)
MAX_WORKERS == 3

(***************************************************************************)
(* Bounds of the model                                                     *)
(***************************************************************************)
\* number of calls made (scrapeWebContent in Spec, getBrowser in SpecPool);
\* call c is the c-th call to start, calls overlap freely
MaxCalls == 2
\* number of firings of the health-check interval
MaxTimerSweeps == 1
\* number of renderer sessions that die on their own
MaxCrash == 1
\* largest value of the clock read by Date.now()
MaxNow == 2
\* number of cleanup calls, made one after the other
MaxCleanups == 2
\* number of POST requests on the conversation
MaxRequests == 2
\* number of direct calls of the cache helpers
MaxCacheCalls == 2
\* largest number of elements of an array handed to validateScrapingResults
MaxElements == 4
\* largest number of results handed to processContentForAI
MaxResults == 2
\* largest maxRetries handed to withRetry
MaxRetriesArg == 3

Timer == 0
Calls == 1..MaxCalls
Procs == {Timer} \cup Calls
Cleanups == 1..MaxCleanups
Requests == 1..MaxRequests

NoBrowser == 0
BrowserIds == 1..(MAX_WORKERS + MaxCalls)

VARIABLES
    browsers,   \* BrowserPool.browsers: sequence of [browser, lastUsed]
    healthy,    \* sessions whose browser.pages() probe succeeds
    closed,     \* sessions on which browser.close() has been called
    launched,   \* sessions puppeteer.launch() has produced
    now,        \* Date.now()
    pc,         \* position of each call
    swIdx,      \* checkBrowserHealth: index of the probe in flight (1-based)
    swTarget,   \* checkBrowserHealth: session of the probe in flight
    swBad,      \* checkBrowserHealth: unhealthyBrowsers (1-based indexes)
    swRem,      \* checkBrowserHealth: indexes still to remove, current first
    swFailed,   \* sessions whose probe failed in the sweep of this call
    probedOk,   \* sessions whose probe succeeded in the sweep of this call
    gbRet,      \* getBrowser: the session returned to the caller
    gbHow,      \* getBrowser: "none" | "launched" | "reused" | "threw"
    nSweeps,    \* number of firings of the health-check interval so far
    nCrash,     \* number of sessions that died on their own so far
    store,      \* the Redis store: key -> <<>> or <<serialized value>>
    url,        \* scrapeWebContent: the argument of the call
    metrics,    \* scrapeWebContent: the ScrapingMetrics object of the call
    pending,    \* scrapeWebContent: <<result>> built and awaiting the cache write
    dynOut,     \* scrapeWithPuppeteer: <<outcome>> held while `finally` runs
    page,       \* scrapeWithPuppeteer: "none" | "open" | "closed"
    result,     \* scrapeWebContent: <<>> or <<the value the call returned>>
    thrown,     \* <<>> or <<message of the exception the orchestrator caught>>
    trace,      \* what the call has done so far (per-call counters)
    cleanup,    \* BrowserPool: the interval handle and the cleanup calls
    post,       \* POST: the locals of one request, step by step
    handle,     \* handleQuery: the locals of one call
    aged,       \* the two caches with the time each entry was scraped and expires
    gather,     \* gatherInformation: the call's urls, position and results
    chat,       \* the chat history list, the POST requests and the reads
    roundTrip,  \* a setCachedContent / getCachedContent pair on one key
    cacheCall,  \* the direct call of a cache helper that settled last
    validated,  \* validateScrapingResults: <<>> or <<its input and output>>
    gate,       \* isContentMeaningful: <<>> or <<its input and verdict>>
    processed,  \* processContentForAI: <<>> or <<its input and output>>
    retry,      \* withRetry: the call in progress
    analysis    \* analyzeQueryIntent: the call in progress

poolVars == <<browsers, healthy, closed, launched, now>>
envVars == <<nSweeps, nCrash>>
sweepVars == <<swIdx, swTarget, swBad, swRem, swFailed, probedOk>>
gbVars == <<gbRet, gbHow>>
scrVars == <<store, url, metrics, pending, dynOut, page, result, thrown, trace>>
utilVars == <<cacheCall, validated, gate, processed, retry, analysis>>
reqVars == <<post, handle, aged>>
extVars == <<cleanup, gather, chat, roundTrip, utilVars, reqVars>>
vars == <<poolVars, envVars, pc, sweepVars, gbVars, scrVars, extVars>>

(***************************************************************************)
(* Strings.  A JavaScript string is a sequence of chunks; the texts the    *)
(* quality gate inspects are sequences of single characters.  The state    *)
(* holds the name of a text or of a url, TextOf and UrlOf give its value.  *)
(***************************************************************************)
MIN_CONTENT_LENGTH == 100
MIN_SENTENCES == 3
MIN_WORD_LENGTH == 3

\* n copies of the chunk sequence w, separated by sep
Repeat(w, sep, n) ==
    LET unit == Len(w) + Len(sep) IN
    [i \in 1..(n * Len(w) + (n - 1) * Len(sep)) |->
        LET k == ((i - 1) % unit) + 1 IN
        IF k <= Len(w) THEN w[k] ELSE sep[k - Len(w)]]

Headline == <<"N", "e", "w", "s", "\n", "\n">>

TextNames == {"t_empty", "t_short", "t_good", "t_other", "t_404"}

TextOf(t) ==
    CASE t = "t_empty" -> <<>>
      [] t = "t_short" -> Headline \o Repeat(<<"a", "b", ".">>, <<" ">>, 5)
      [] t = "t_good"  -> Headline \o Repeat(<<"a", "b", ".">>, <<" ">>, 100)
      [] t = "t_other" -> Headline \o Repeat(<<"c", "d", "!">>, <<" ">>, 120)
      [] t = "t_404"   -> Headline \o Repeat(<<"a", "b", ".">>, <<" ">>, 100)
                                   \o <<" ", "4", "0", "4">>

\* the characters /\s/ matches among those of the texts, and those of [.!?]
Whitespace == {" ", "\n", "\t", "\r"}
Terminators == {".", "!", "?"}

IsWhitespace(ch) == ch \in Whitespace

\* number of maximal runs of characters of the class in s
CountRuns(s, class) ==
    Cardinality({i \in 1..Len(s) : s[i] \in class /\ (i = 1 \/ s[i - 1] \notin class)})

\* s.split(re).length for a regular expression matching the runs of a class
SplitLength(s, class) == CountRuns(s, class) + 1

\* s.includes(phrase)
Includes(s, phrase) ==
    \E i \in 1..(Len(s) - Len(phrase) + 1) :
        \A j \in 1..Len(phrase) : s[i + j - 1] = phrase[j]

\* s.trim()
Trim(s) ==
    LET keep == {i \in 1..Len(s) : ~IsWhitespace(s[i])} IN
    IF keep = {} THEN <<>>
    ELSE LET lo == CHOOSE i \in keep : \A j \in keep : i <= j
             hi == CHOOSE i \in keep : \A j \in keep : j <= i
         IN SubSeq(s, lo, hi)

BlockedPhrases ==
    { <<"4", "0", "4">>,
      <<"A", "c", "c", "e", "s", "s", " ", "D", "e", "n", "i", "e", "d">>,
      <<"P", "l", "e", "a", "s", "e", " ", "e", "n", "a", "b", "l", "e", " ",
        "J", "a", "v", "a", "S", "c", "r", "i", "p", "t">>,
      <<"R", "o", "b", "o", "t", " ", "C", "h", "e", "c", "k">>,
      <<"C", "a", "p", "t", "c", "h", "a">> }

\* isContentMeaningful(content), content a string
IsContentMeaningfulText(s) ==
    IF Len(s) = 0 \/ Len(Trim(s)) = 0 THEN FALSE
    ELSE LET wordCount == SplitLength(s, Whitespace)
             sentenceCount == SplitLength(s, Terminators)
             hasBlockedPhrases == \E ph \in BlockedPhrases : Includes(s, ph)
         IN /\ wordCount >= MIN_CONTENT_LENGTH
            /\ sentenceCount >= MIN_SENTENCES
            \* averageWordLength = content.length / wordCount >= MIN_WORD_LENGTH
            /\ Len(s) >= MIN_WORD_LENGTH * wordCount
            /\ ~hasBlockedPhrases

\* the verdict of the gate on each named text
GateVerdicts == [t \in TextNames |-> IsContentMeaningfulText(TextOf(t))]

IsContentMeaningful(t) == GateVerdicts[t]

\* content.split('\n')[0]?.trim() || 'Untitled Content'
TitleOfText(s) ==
    LET
        nl == {i \in 1..Len(s) : s[i] = "\n"}
        first == IF nl = {} THEN s
                 ELSE SubSeq(s, 1, (CHOOSE i \in nl : \A j \in nl : i <= j) - 1)
    IN IF Trim(first) = <<>> THEN <<"Untitled Content">> ELSE Trim(first)

Titles == [t \in TextNames |-> TitleOfText(TextOf(t))]

TitleOf(t) == Titles[t]

\* content.split('\n\n').length: the separators are matched left to right
\* without overlap, so a run of newlines holds one for each full pair
ParagraphCount(s) ==
    LET IsNl(i) == s[i] = "\n"
        NlBefore(i) == Cardinality({j \in 1..(i - 1) : \A k \in j..(i - 1) : IsNl(k)})
    IN Cardinality({i \in 1..(Len(s) - 1) :
                      IsNl(i) /\ IsNl(i + 1) /\ NlBefore(i) % 2 = 0}) + 1

ContentStatsOfText(s) ==
    [ wordCount |-> SplitLength(s, Whitespace),
      characterCount |-> Len(s),
      paragraphCount |-> ParagraphCount(s),
      averageWordLength |-> <<Len(s), SplitLength(s, Whitespace)>> ]

Stats == [t \in TextNames |-> ContentStatsOfText(TextOf(t))]

ContentStats(t) == Stats[t]

(***************************************************************************)
(* Urls handed to scrapeWebContent                                         *)
(***************************************************************************)
UrlNames == {"u_empty", "u_number", "u_ftp", "u_httpx", "u_page"}

UrlOf(u) ==
    CASE u = "u_empty"  -> [type |-> "string", chars |-> <<>>]
      [] u = "u_number" -> [type |-> "number", chars |-> <<>>]
      [] u = "u_ftp"    -> [type |-> "string",
                            chars |-> <<"f", "t", "p", ":", "/", "/", "a">>]
      [] u = "u_httpx"  -> [type |-> "string",
                            chars |-> <<"h", "t", "t", "p", "x", ":", "/", "/", "a">>]
      [] u = "u_page"   -> [type |-> "string",
                            chars |-> <<"h", "t", "t", "p", "s", ":", "/", "/", "a">>]

StartsWith(s, prefix) ==
    /\ Len(s) >= Len(prefix)
    /\ SubSeq(s, 1, Len(prefix)) = prefix

\* a guard that leaves out the test of the type
UrlAcceptedUntyped(u) ==
    LET v == UrlOf(u) IN
    v.type # "string" \/ (Len(v.chars) > 0 /\ StartsWith(v.chars, <<"h", "t", "t", "p">>))

\* the guard of scrapeWebContent negated:
\* url && typeof url === 'string' && url.startsWith('http')
UrlAccepted(u) ==
    LET v == UrlOf(u) IN
    /\ v.type = "string"
    /\ Len(v.chars) > 0
    /\ StartsWith(v.chars, <<"h", "t", "t", "p">>)

\* the url begins with an HTTP scheme, http:// or https://
HasHttpScheme(u) ==
    LET v == UrlOf(u) IN
    /\ v.type = "string"
    /\ \/ StartsWith(v.chars, <<"h", "t", "t", "p", ":", "/", "/">>)
       \/ StartsWith(v.chars, <<"h", "t", "t", "p", "s", ":", "/", "/">>)

\* `scrape:${createHash('sha256').update(url).digest('hex')}`
ScrapeKey(u) == <<"scrape:", "sha256", u>>

\* `${SCRAPE_CACHE_PREFIX}${url}`, the key of gatherInformation
GatherKey(u) == <<"cache:", "scrape:", u>>

ScrapeKeys == {ScrapeKey(u) : u \in {v \in UrlNames : UrlOf(v).type = "string"}}

GatherKeys == {GatherKey(u) : u \in UrlNames}

Keys == ScrapeKeys \cup GatherKeys

(***************************************************************************)
(* Serialization of the cache helpers                                      *)
(***************************************************************************)
\* An object is a record holding exactly the properties that are set.  A
\* JSON text is the sequence of its members <<key, value>> in property
\* order, a nested object being a JSON text itself.
PropertyOrder ==
    << "userMessage", "aiResponse",
       "content", "title", "success", "error", "url", "timestamp",
       "scrapeMethod", "metrics", "contentStats",
       "startTime", "cheerioAttemptTime", "puppeteerAttemptTime", "totalTime",
       "method", "wordCount", "characterCount", "paragraphCount",
       "averageWordLength" >>

NestedProperties == {"metrics", "contentStats"}

KeysOf(obj) == SelectSeq(PropertyOrder, LAMBDA k : k \in DOMAIN obj)

StringifyFlat(obj) ==
    LET ks == KeysOf(obj) IN [i \in 1..Len(ks) |-> <<ks[i], obj[ks[i]]>>]

\* JSON.stringify(content, replacer); the replacer only rewrites RegExp and
\* Error values, which a ScrapingResult does not hold
Stringify(obj) ==
    LET ks == KeysOf(obj) IN
    [i \in 1..Len(ks) |->
        <<ks[i], IF ks[i] \in NestedProperties
                 THEN StringifyFlat(obj[ks[i]]) ELSE obj[ks[i]]>>]

MemberOf(text, k) == text[CHOOSE i \in 1..Len(text) : text[i][1] = k][2]

ParseFlat(text) == [k \in {text[i][1] : i \in 1..Len(text)} |-> MemberOf(text, k)]

\* JSON.parse(text)
ParseJson(text) ==
    [k \in {text[i][1] : i \in 1..Len(text)} |->
        IF k \in NestedProperties THEN ParseFlat(MemberOf(text, k))
        ELSE MemberOf(text, k)]

\* { ...obj, [k]: v }
With(obj, k, v) == [x \in (DOMAIN obj) \cup {k} |-> IF x = k THEN v ELSE obj[x]]

(***************************************************************************)
(* Helpers on sequences                                                    *)
(***************************************************************************)
RECURSIVE Reverse(_)
Reverse(s) == IF s = <<>> THEN <<>> ELSE Append(Reverse(Tail(s)), Head(s))

\* Array.prototype.splice(index, 1), index 1-based; out of range: no change
Splice(s, i) ==
    IF i >= 1 /\ i <= Len(s)
    THEN SubSeq(s, 1, i - 1) \o SubSeq(s, i + 1, Len(s))
    ELSE s

PoolIds(bs) == {bs[i].browser : i \in 1..Len(bs)}

\* reduce((prev, curr) => prev.lastUsed < curr.lastUsed ? prev : curr):
\* position of the entry the reduction yields
RECURSIVE LruFrom(_, _, _)
LruFrom(bs, prev, i) ==
    IF i > Len(bs) THEN prev
    ELSE LruFrom(bs, IF bs[prev].lastUsed < bs[i].lastUsed THEN prev ELSE i, i + 1)

\* position of an entry with the largest lastUsed
MostRecentlyUsed(bs) ==
    CHOOSE i \in 1..Len(bs) : \A j \in 1..Len(bs) : bs[j].lastUsed <= bs[i].lastUsed

LeastRecentlyUsed(bs) == LruFrom(bs, 1, 2)

\* the removal loop of checkBrowserHealth up to its next await: an index
\* past the end of the array makes this.browsers[index].browser throw, the
\* catch logs it and splice(index, 1) changes nothing
RECURSIVE SkipOutOfRange(_, _)
SkipOutOfRange(rem, len) ==
    IF rem # <<>> /\ Head(rem) > len THEN SkipOutOfRange(Tail(rem), len) ELSE rem

(***************************************************************************)
(* BrowserPool.checkBrowserHealth                                          *)
(***************************************************************************)
\* tail of the sweep after the probes: start closing, or return
BeginRemoval(p, rem0, alive, after) ==
    LET rem == SkipOutOfRange(rem0, Len(browsers)) IN
    IF rem = <<>>
    THEN /\ pc' = [pc EXCEPT ![p] = after]
         /\ swRem' = [swRem EXCEPT ![p] = <<>>]
         /\ healthy' = alive
         /\ UNCHANGED closed
    ELSE LET b == browsers[Head(rem)].browser IN
         /\ pc' = [pc EXCEPT ![p] = "sw_close"]
         /\ swRem' = [swRem EXCEPT ![p] = rem]
         /\ closed' = closed \cup {b}
         /\ healthy' = alive \ {b}

\* a session that is still up may be found disconnected by the call that
\* touches it: its process died some time before
Dies(b, dies) == dies => (b \in healthy /\ nCrash < MaxCrash)

\* the synchronous start of a sweep, up to the first await
SweepBegin(p) ==
    /\ swBad' = [swBad EXCEPT ![p] = <<>>]
    /\ swFailed' = [swFailed EXCEPT ![p] = {}]
    /\ probedOk' = [probedOk EXCEPT ![p] = {}]
    /\ IF Len(browsers) = 0
       THEN /\ pc' = [pc EXCEPT ![p] = "sw_ret"]
            /\ UNCHANGED <<swIdx, swTarget>>
       ELSE /\ pc' = [pc EXCEPT ![p] = "sw_probe"]
            /\ swIdx' = [swIdx EXCEPT ![p] = 1]
            /\ swTarget' = [swTarget EXCEPT ![p] = browsers[1].browser]
    /\ UNCHANGED <<swRem>>

\* `await browser.pages()` resolves or rejects; the loop goes on
SweepProbe(p) ==
    /\ pc[p] = "sw_probe"
    /\ \E dies \in BOOLEAN :
       LET alive == IF dies THEN healthy \ {swTarget[p]} ELSE healthy
           ok == swTarget[p] \in alive
           bad == IF ok THEN swBad[p] ELSE Append(swBad[p], swIdx[p])
           next == swIdx[p] + 1
       IN  /\ Dies(swTarget[p], dies)
           /\ nCrash' = IF dies THEN nCrash + 1 ELSE nCrash
           /\ probedOk' = [probedOk EXCEPT ![p] =
                             IF ok THEN @ \cup {swTarget[p]} ELSE @]
           /\ swFailed' = [swFailed EXCEPT ![p] =
                             IF ok THEN @ ELSE @ \cup {swTarget[p]}]
           /\ IF next <= Len(browsers)
              THEN /\ swBad' = [swBad EXCEPT ![p] = bad]
                   /\ swIdx' = [swIdx EXCEPT ![p] = next]
                   /\ swTarget' = [swTarget EXCEPT ![p] = browsers[next].browser]
                   /\ healthy' = alive
                   /\ UNCHANGED <<pc, swRem, closed>>
              ELSE /\ BeginRemoval(p, Reverse(bad), alive, "sw_ret")
                   /\ swBad' = [swBad EXCEPT ![p] = <<>>]
                   /\ swIdx' = [swIdx EXCEPT ![p] = 0]
                   /\ swTarget' = [swTarget EXCEPT ![p] = NoBrowser]
    /\ UNCHANGED <<scrVars, nSweeps, browsers, launched, now, gbVars>>
    /\ UNCHANGED extVars

\* `await browser.close()` settles (a rejection is logged and ignored), then
\* splice(index, 1) and the loop goes on
SweepSplice(p) ==
    /\ pc[p] = "sw_close"
    /\ browsers' = Splice(browsers, Head(swRem[p]))
    /\ LET rem == SkipOutOfRange(Tail(swRem[p]), Len(browsers')) IN
       IF rem = <<>>
       THEN /\ pc' = [pc EXCEPT ![p] = "sw_ret"]
            /\ swRem' = [swRem EXCEPT ![p] = <<>>]
            /\ UNCHANGED <<closed, healthy>>
       ELSE LET b == browsers'[Head(rem)].browser IN
            /\ pc' = [pc EXCEPT ![p] = "sw_close"]
            /\ swRem' = [swRem EXCEPT ![p] = rem]
            /\ closed' = closed \cup {b}
            /\ healthy' = healthy \ {b}
    /\ UNCHANGED <<scrVars, envVars, launched, now, swIdx, swTarget, swBad, swFailed, probedOk, gbVars>>
    /\ UNCHANGED extVars

\* the 60 s interval callback of the constructor starts a sweep
TimerSweep ==
    /\ cleanup.timerOn
    /\ pc[Timer] = "idle"
    /\ nSweeps < MaxTimerSweeps
    /\ nSweeps' = nSweeps + 1
    /\ SweepBegin(Timer)
    /\ UNCHANGED <<scrVars, poolVars, gbVars, nCrash>>
    /\ UNCHANGED extVars

\* the promise of the interval's sweep resolves; nobody awaits it
TimerDone ==
    /\ pc[Timer] = "sw_ret"
    /\ pc' = [pc EXCEPT ![Timer] = "idle"]
    /\ swFailed' = [swFailed EXCEPT ![Timer] = {}]
    /\ probedOk' = [probedOk EXCEPT ![Timer] = {}]
    /\ UNCHANGED <<scrVars, envVars, poolVars, swIdx, swTarget, swBad, swRem, gbVars>>
    /\ UNCHANGED extVars

(***************************************************************************)
(* BrowserPool.cleanup                                                     *)
(***************************************************************************)
\* Promise.all over the close() promises: rejected as soon as one of them is
PromiseAllSettled(rejects) == IF rejects THEN "threw" ELSE "done"

\* a cleanup call starts once the calls before it have finished
CleanupMayStart(c) ==
    /\ cleanup.pc[c] = "idle"
    /\ \A d \in Cleanups : d < c => cleanup.pc[d] \in {"done", "threw"}

\* clearInterval, then browser.close() is called on every pooled session
\* and the call waits for all of them
CleanupStart(c) ==
    /\ CleanupMayStart(c)
    /\ cleanup' = [cleanup EXCEPT
                     !.timerOn = FALSE,
                     !.pc[c] = "closing",
                     !.awaited[c] = PoolIds(browsers),
                     !.closeCalls = [b \in BrowserIds |->
                                       IF b \in PoolIds(browsers) THEN @[b] + 1 ELSE @[b]]]
    /\ closed' = closed \cup PoolIds(browsers)
    /\ healthy' = healthy \ PoolIds(browsers)
    /\ UNCHANGED <<browsers, launched, now, envVars, pc, sweepVars, gbVars, scrVars,
                   reqVars, gather, chat, roundTrip, utilVars>>

\* the Promise.all settles: `this.browsers = []` runs only if no close()
\* rejected, otherwise the rejection leaves cleanup
CleanupResume(c) ==
    /\ cleanup.pc[c] = "closing"
    /\ \E rejects \in BOOLEAN :
          /\ rejects => cleanup.awaited[c] # {}
          /\ browsers' = IF PromiseAllSettled(rejects) = "done" THEN <<>> ELSE browsers
          /\ cleanup' = [cleanup EXCEPT
                           !.pc[c] = PromiseAllSettled(rejects),
                           !.awaited[c] = {},
                           !.left[c] = Len(browsers')]
    /\ UNCHANGED <<healthy, closed, launched, now, envVars, pc, sweepVars, gbVars,
                   scrVars, reqVars, gather, chat, roundTrip, utilVars>>

(***************************************************************************)
(* BrowserPool.getBrowser                                                  *)
(***************************************************************************)
\* getBrowser is entered: `await this.checkBrowserHealth()` runs the sweep
\* up to its first await
GetBrowserEnter(p, from) ==
    /\ pc[p] = from
    /\ SweepBegin(p)
    /\ gbRet' = [gbRet EXCEPT ![p] = NoBrowser]
    /\ gbHow' = [gbHow EXCEPT ![p] = "none"]
    /\ UNCHANGED <<envVars, poolVars>>

\* the pool is below maxBrowsers: puppeteer.launch() is called and awaited
LaunchWanted(bs) == Len(bs) < MAX_WORKERS

GbDecideLaunch(p) ==
    /\ p # Timer
    /\ pc[p] = "sw_ret"
    /\ LaunchWanted(browsers)
    /\ pc' = [pc EXCEPT ![p] = "gb_launch"]
    /\ UNCHANGED <<scrVars, envVars, poolVars, sweepVars, gbVars>>
    /\ UNCHANGED extVars

\* the pool is full: the least recently used session is handed out
GbReuse(p) ==
    /\ p # Timer
    /\ pc[p] = "sw_ret"
    /\ ~LaunchWanted(browsers)
    /\ LET i == LeastRecentlyUsed(browsers) IN
       /\ browsers' = [browsers EXCEPT ![i].lastUsed = now]
       /\ gbRet' = [gbRet EXCEPT ![p] = browsers[i].browser]
    /\ gbHow' = [gbHow EXCEPT ![p] = "reused"]
    /\ pc' = [pc EXCEPT ![p] = "gb_ret"]
    /\ UNCHANGED <<scrVars, envVars, healthy, closed, launched, now, sweepVars>>
    /\ UNCHANGED extVars

\* puppeteer.launch() resolves: the session is pushed and returned
GbLaunched(p) ==
    /\ pc[p] = "gb_launch"
    /\ LET b == Cardinality(launched) + 1 IN
       /\ launched' = launched \cup {b}
       /\ healthy' = healthy \cup {b}
       /\ browsers' = Append(browsers, [browser |-> b, lastUsed |-> now])
       /\ gbRet' = [gbRet EXCEPT ![p] = b]
    /\ gbHow' = [gbHow EXCEPT ![p] = "launched"]
    /\ pc' = [pc EXCEPT ![p] = "gb_ret"]
    /\ UNCHANGED <<scrVars, envVars, closed, now, sweepVars>>
    /\ UNCHANGED extVars

\* puppeteer.launch() rejects: the catch rethrows a ScrapingError with
\* url 'browser-pool' and method 'puppeteer'
GbLaunchFailed(p) ==
    /\ pc[p] = "gb_launch"
    /\ gbHow' = [gbHow EXCEPT ![p] = "threw"]
    /\ pc' = [pc EXCEPT ![p] = "gb_ret"]
    /\ UNCHANGED <<scrVars, envVars, poolVars, sweepVars, gbRet>>
    /\ UNCHANGED extVars

\* a direct caller of the exported pool asks for a session, and takes it
CallerGetBrowser(p) ==
    /\ p \in Calls
    /\ p = 1 \/ pc[p - 1] # "idle"
    /\ GetBrowserEnter(p, "idle")
    /\ UNCHANGED scrVars
    /\ UNCHANGED extVars

CallerReturn(p) ==
    /\ p \in Calls
    /\ pc[p] = "gb_ret"
    /\ pc' = [pc EXCEPT ![p] = "returned"]
    /\ UNCHANGED <<scrVars, envVars, poolVars, sweepVars, gbVars>>
    /\ UNCHANGED extVars

(***************************************************************************)
(* scrapeWebContent                                                        *)
(***************************************************************************)
\* messages of the exceptions the collaborators throw
FetchError == <<"fetch failed">>
BodyError == <<"body stream failed">>
CheerioError == <<"cheerio failed">>
LaunchError == <<"spawn failed">>
NewPageError == <<"Protocol error: Target closed">>
NavigationError == <<"Navigation timeout of 15000 ms exceeded">>
PageCloseError == <<"Protocol error: Connection closed">>

\* a reading of performance.now(): no decision depends on its value
PerformanceNow == "ms"

\* call p has not started and is the next one to start
CanStart(p) == pc[p] = "idle" /\ (p = 1 \/ pc[p - 1] # "idle")

\* the texts the pages of the modelled web yield to either strategy
Served == {"t_empty", "t_good", "t_other"}

\* what a call has done so far: counters of the operations it started, the
\* cache writes it asked for and whether the store took them, the verdicts
\* of the gate, the entry under its key when it read the cache and how the
\* read ended, and the calls that had returned when it started
ZeroTrace ==
    [ reads |-> 0, fetches |-> 0, extracts |-> 0, dynamics |-> 0,
      acquires |-> 0, pages |-> 0, writes |-> <<>>, gates |-> <<>>,
      readOut |-> "none", seen |-> <<>>, after |-> {} ]

Bump(tr, k) == [tr EXCEPT ![k] = @ + 1]

Gated(tr, stage, t) ==
    [tr EXCEPT !.gates = Append(@, [stage |-> stage, text |-> t,
                                    ok |-> IsContentMeaningful(t)])]

\* the object returned for a url the guard rejects
InvalidUrlResult(u, m) ==
    [ content |-> "t_empty", title |-> <<"Invalid URL">>, success |-> FALSE,
      error |-> <<"Invalid URL provided">>, url |-> u, timestamp |-> now,
      metrics |-> m ]

\* a success object without the statistics
SuccessResultNoStats(u, t, how, m) ==
    [ content |-> t, title |-> TitleOf(t), success |-> TRUE, url |-> u,
      timestamp |-> now, scrapeMethod |-> how, metrics |-> m ]

\* the object built when a strategy's text passes the gate
SuccessResult(u, t, how, m) ==
    [ content |-> t, title |-> TitleOf(t), success |-> TRUE, url |-> u,
      timestamp |-> now, scrapeMethod |-> how, metrics |-> m,
      contentStats |-> ContentStats(t) ]

\* a validation failure reported as a success
ValidationFailedButOk(u, m) ==
    [ content |-> "t_empty", title |-> <<"Failed to extract meaningful content">>,
      success |-> TRUE, error |-> <<"Content validation failed">>, url |-> u,
      timestamp |-> now, metrics |-> m ]

\* a validation failure that keeps the rejected page's title as its error
ValidationFailedOther(u, m) ==
    [ content |-> "t_empty", title |-> <<"Failed to extract meaningful content">>,
      success |-> FALSE, error |-> <<"Failed to extract meaningful content">>,
      url |-> u, timestamp |-> now, metrics |-> m ]

\* the object returned when both strategies fail the gate
ValidationFailedResult(u, m) ==
    [ content |-> "t_empty", title |-> <<"Failed to extract meaningful content">>,
      success |-> FALSE, error |-> <<"Content validation failed">>, url |-> u,
      timestamp |-> now, metrics |-> m ]

\* a catch clause that returns no error text
CaughtResultSilent(u, msg, m) ==
    [ content |-> "t_empty", title |-> <<"Scraping Failed">>, success |-> FALSE,
      url |-> u, timestamp |-> now, metrics |-> m ]

\* a catch clause that reports a fixed text instead of the message
CaughtResultGeneric(u, msg, m) ==
    [ content |-> "t_empty", title |-> <<"Scraping Failed">>, success |-> FALSE,
      error |-> <<"Scraping Failed">>, url |-> u, timestamp |-> now, metrics |-> m ]

\* the object the catch clause returns
CaughtResult(u, msg, m) ==
    [ content |-> "t_empty", title |-> <<"Scraping Failed">>, success |-> FALSE,
      error |-> msg, url |-> u, timestamp |-> now, metrics |-> m ]

\* a hit that is stamped with the time of the read
CacheHitRestamped(cachedContent, m) ==
    [x \in (DOMAIN cachedContent) \cup {"metrics"} |->
        IF x = "metrics" THEN m ELSE IF x = "timestamp" THEN now ELSE cachedContent[x]]

\* a hit that keeps the metrics of the cached object
CacheHitUnannotated(cachedContent, m) == cachedContent

\* the object returned on a cache hit: { ...cachedContent, metrics }
CacheHitResult(cachedContent, m) == With(cachedContent, "metrics", m)

\* metrics.totalTime = performance.now() - metrics.startTime
Elapsed(m) == [m EXCEPT !.totalTime = PerformanceNow]

\* the call is made.  A url the guard rejects returns at once; a value the
\* guard lets through that is no string makes createHash().update(url)
\* throw before the try block is entered
ScrapeEnter(p, u) ==
    /\ CanStart(p)
    /\ url' = [url EXCEPT ![p] = u]
    /\ trace' = [trace EXCEPT ![p] =
                   [ZeroTrace EXCEPT !.after = {q \in Calls : pc[q] = "done"}]]
    /\ LET m == [startTime |-> PerformanceNow, success |-> FALSE,
                 method |-> "cheerio", totalTime |-> 0]
       IN /\ metrics' = [metrics EXCEPT ![p] = m]
          /\ IF ~UrlAccepted(u)
             THEN /\ pc' = [pc EXCEPT ![p] = "done"]
                  /\ result' = [result EXCEPT ![p] = <<InvalidUrlResult(u, m)>>]
             ELSE IF UrlOf(u).type # "string"
             THEN /\ pc' = [pc EXCEPT ![p] = "raised"]
                  /\ UNCHANGED result
             ELSE /\ pc' = [pc EXCEPT ![p] = "cache_get"]
                  /\ UNCHANGED result
    /\ UNCHANGED <<poolVars, envVars, sweepVars, gbVars, pending, dynOut,
                   page, thrown>>

\* a direct call of scrapeWebContent
ScrapeStart(p, u) ==
    /\ ScrapeEnter(p, u)
    /\ UNCHANGED store
    /\ UNCHANGED extVars

\* the catch clause of scrapeWebContent
Caught(p, msg) ==
    /\ thrown' = [thrown EXCEPT ![p] = <<msg>>]
    /\ metrics' = [metrics EXCEPT ![p] = Elapsed(@)]
    /\ result' = [result EXCEPT ![p] = <<CaughtResult(url[p], msg, Elapsed(metrics[p]))>>]
    /\ pc' = [pc EXCEPT ![p] = "done"]

\* a cache helper that never finds an entry
GetCachedContentNever(key, storeFails) == <<>>

\* getCachedContent(key): the value it resolves to, <<>> for null.  The
\* store hands back the parsed object or the text, which is then parsed; a
\* store error is logged and gives null
GetCachedContent(key, storeFails) ==
    IF storeFails \/ store[key] = <<>> THEN <<>> ELSE <<ParseJson(store[key][1])>>

\* `await getCachedContent(cacheKey)` settles
CacheGet(p) ==
    /\ pc[p] = "cache_get"
    /\ \E storeFails \in BOOLEAN :
         LET key == ScrapeKey(url[p])
             cachedContent == GetCachedContent(key, storeFails)
             tr == [Bump(trace[p], "reads") EXCEPT
                      !.seen = store[key],
                      !.readOut = IF storeFails THEN "error"
                                  ELSE IF cachedContent # <<>> THEN "hit" ELSE "miss"]
         IN
         /\ trace' = [trace EXCEPT ![p] = tr]
         /\ IF cachedContent # <<>>
            THEN LET m == Elapsed([metrics[p] EXCEPT !.method = "cache"]) IN
                 /\ metrics' = [metrics EXCEPT ![p] = m]
                 /\ result' = [result EXCEPT ![p] = <<CacheHitResult(cachedContent[1], m)>>]
                 /\ pc' = [pc EXCEPT ![p] = "done"]
            ELSE /\ metrics' = [metrics EXCEPT ![p] =
                                  With(@, "cheerioAttemptTime", PerformanceNow)]
                 /\ pc' = [pc EXCEPT ![p] = "static"]
                 /\ UNCHANGED result
    /\ UNCHANGED <<poolVars, envVars, sweepVars, gbVars, store, url, pending,
                   dynOut, page, thrown>>
    /\ UNCHANGED extVars

\* fetch(url), response.text() and scrapeWithCheerio(html) settle, the gate
\* judges the static text; a rejected text enters scrapeWithPuppeteer, which
\* calls getBrowser.  fetch rejects a url that is no http(s) url
StaticStage(p) ==
    /\ pc[p] = "static"
    /\ \/ /\ \E msg \in {FetchError, BodyError, CheerioError} :
               /\ msg # FetchError => HasHttpScheme(url[p])
               /\ Caught(p, msg)
               /\ trace' = [trace EXCEPT ![p] =
                              IF msg = CheerioError
                              THEN Bump(Bump(@, "fetches"), "extracts")
                              ELSE Bump(@, "fetches")]
          /\ UNCHANGED <<poolVars, envVars, sweepVars, gbVars, pending>>
       \/ /\ HasHttpScheme(url[p])
          /\ \E t \in Served :
               LET tr == Gated(Bump(Bump(trace[p], "fetches"), "extracts"), "cheerio", t) IN
               IF IsContentMeaningful(t)
               THEN LET m == Elapsed([metrics[p] EXCEPT !.success = TRUE]) IN
                    /\ metrics' = [metrics EXCEPT ![p] = m]
                    /\ pending' = [pending EXCEPT ![p] =
                                     <<SuccessResult(url[p], t, "cheerio", m)>>]
                    /\ pc' = [pc EXCEPT ![p] = "cache_set"]
                    /\ trace' = [trace EXCEPT ![p] = tr]
                    /\ UNCHANGED <<poolVars, envVars, sweepVars, gbVars>>
               ELSE /\ metrics' = [metrics EXCEPT ![p] =
                          With([@ EXCEPT !.method = "puppeteer"],
                               "puppeteerAttemptTime", PerformanceNow)]
                    /\ trace' = [trace EXCEPT ![p] = Bump(Bump(tr, "dynamics"), "acquires")]
                    /\ GetBrowserEnter(p, "static")
                    /\ UNCHANGED pending
          /\ UNCHANGED <<result, thrown>>
    /\ UNCHANGED <<store, url, dynOut, page>>
    /\ UNCHANGED extVars

\* setCachedContent(key, content): the store after the call.  Null content
\* and a store error are logged and swallowed
SetCachedContent(key, content, storeFails) ==
    IF content = <<>> \/ storeFails THEN store
    ELSE [store EXCEPT ![key] = <<Stringify(content[1])>>]

\* a cache helper whose catch rethrows, as the one of storeChat does
WriteOutcomeRethrown(storeFails) == IF storeFails THEN "rejected" ELSE "resolved"

\* how the promise of setCachedContent settles: its catch logs the error
\* of the store and returns
WriteOutcome(storeFails) == "resolved"

StoreError == <<"store unreachable">>

\* `await setCachedContent(cacheKey, result)` settles and the result is
\* returned
CacheSet(p) ==
    /\ pc[p] = "cache_set"
    /\ \E storeFails \in BOOLEAN :
         LET key == ScrapeKey(url[p]) IN
         /\ store' = SetCachedContent(key, pending[p], storeFails)
         /\ trace' = [trace EXCEPT ![p].writes =
                        Append(@, [key |-> key, value |-> pending[p][1],
                                   ok |-> ~storeFails])]
         /\ IF WriteOutcome(storeFails) = "rejected"
            THEN Caught(p, StoreError)
            ELSE /\ result' = [result EXCEPT ![p] = pending[p]]
                 /\ pc' = [pc EXCEPT ![p] = "done"]
                 /\ UNCHANGED <<metrics, thrown>>
    /\ pending' = [pending EXCEPT ![p] = <<>>]
    /\ UNCHANGED <<poolVars, envVars, sweepVars, gbVars, url, dynOut, page>>
    /\ UNCHANGED extVars

(***************************************************************************)
(* scrapeWithPuppeteer                                                     *)
(***************************************************************************)
\* a catch of getBrowser that rethrows the launch error as it is
LaunchFailureBare(msg) ==
    [ name |-> "Error", message |-> msg, url |-> "none", method |-> "none" ]

\* new ScrapingError(`Failed to launch browser: ${error.message}`,
\*                   'browser-pool', 'puppeteer')
LaunchFailure(msg) ==
    [ name |-> "ScrapingError", message |-> <<"Failed to launch browser: ">> \o msg,
      url |-> "browser-pool", method |-> "puppeteer" ]

\* what getBrowser threw to its caller, <<>> when it returned a session
GbThrown(how) == IF how = "threw" THEN <<LaunchFailure(LaunchError)>> ELSE <<>>

\* getBrowser settles: its ScrapingError goes to the caller's catch,
\* otherwise browser.newPage() is called
ScrapeGotBrowser(p) ==
    /\ pc[p] = "gb_ret"
    /\ IF gbHow[p] = "threw"
       THEN Caught(p, GbThrown(gbHow[p])[1].message)
       ELSE /\ pc' = [pc EXCEPT ![p] = "pp_open"]
            /\ UNCHANGED <<metrics, result, thrown>>
    /\ gbHow' = [gbHow EXCEPT ![p] = "none"]
    /\ swFailed' = [swFailed EXCEPT ![p] = {}]
    /\ probedOk' = [probedOk EXCEPT ![p] = {}]
    /\ UNCHANGED <<poolVars, envVars, swIdx, swTarget, swBad, swRem, gbRet, store,
                   url, pending, dynOut, page, trace>>
    /\ UNCHANGED extVars

\* browser.newPage() settles: a dead session rejects (outside the try of
\* scrapeWithPuppeteer, inside the one of scrapeWebContent)
PpOpened(p) ==
    /\ pc[p] = "pp_open"
    /\ \E dies \in BOOLEAN :
         LET alive == IF dies THEN healthy \ {gbRet[p]} ELSE healthy IN
         /\ Dies(gbRet[p], dies)
         /\ nCrash' = IF dies THEN nCrash + 1 ELSE nCrash
         /\ healthy' = alive
         /\ IF gbRet[p] \in alive
            THEN /\ page' = [page EXCEPT ![p] = "open"]
                 /\ trace' = [trace EXCEPT ![p] = Bump(@, "pages")]
                 /\ pc' = [pc EXCEPT ![p] = "pp_work"]
                 /\ UNCHANGED <<metrics, result, thrown>>
            ELSE /\ Caught(p, NewPageError)
                 /\ UNCHANGED <<page, trace>>
    /\ gbRet' = [gbRet EXCEPT ![p] = NoBrowser]
    /\ UNCHANGED <<browsers, closed, launched, now, nSweeps, sweepVars, gbHow,
                   store, url, pending, dynOut>>
    /\ UNCHANGED extVars

\* the body of the try (headers, interception, goto, evaluate) yields the
\* text or throws; `finally` removes the listeners and calls page.close()
PpWork(p) ==
    /\ pc[p] = "pp_work"
    /\ \/ dynOut' = [dynOut EXCEPT ![p] = <<[threw |-> TRUE, value |-> NavigationError]>>]
       \/ \E t \in Served :
            dynOut' = [dynOut EXCEPT ![p] = <<[threw |-> FALSE, value |-> <<t>>]>>]
    /\ pc' = [pc EXCEPT ![p] = "pp_close"]
    /\ UNCHANGED <<poolVars, envVars, sweepVars, gbVars, store, url, metrics,
                   pending, page, result, thrown, trace>>
    /\ UNCHANGED extVars

\* a `finally` that forgets the page
PageLeftOpen(closeFails) == "open"

\* the page after page.removeAllListeners() and `await page.close()`: a
\* close that rejects has not closed it
PageAfterClose(closeFails) == IF closeFails THEN "open" ELSE "closed"

\* `await page.close()` settles; its rejection replaces the outcome of the
\* try.  Back in scrapeWebContent the gate judges the rendered text
PpClosed(p) ==
    /\ pc[p] = "pp_close"
    /\ dynOut' = [dynOut EXCEPT ![p] = <<>>]
    /\ \E closeFails \in BOOLEAN :
         LET out == IF closeFails THEN [threw |-> TRUE, value |-> PageCloseError]
                    ELSE dynOut[p][1]
         IN /\ page' = [page EXCEPT ![p] = PageAfterClose(closeFails)]
            /\ IF out.threw
               THEN /\ Caught(p, out.value)
                    /\ UNCHANGED <<pending, trace>>
               ELSE LET t == out.value[1] IN
                    /\ trace' = [trace EXCEPT ![p] = Gated(@, "puppeteer", t)]
                    /\ IF IsContentMeaningful(t)
                       THEN LET m == Elapsed([metrics[p] EXCEPT !.success = TRUE]) IN
                            /\ metrics' = [metrics EXCEPT ![p] = m]
                            /\ pending' = [pending EXCEPT ![p] =
                                             <<SuccessResult(url[p], t, "puppeteer", m)>>]
                            /\ pc' = [pc EXCEPT ![p] = "cache_set"]
                            /\ UNCHANGED <<result, thrown>>
                       ELSE LET m == Elapsed(metrics[p]) IN
                            /\ metrics' = [metrics EXCEPT ![p] = m]
                            /\ result' = [result EXCEPT ![p] =
                                            <<ValidationFailedResult(url[p], m)>>]
                            /\ pc' = [pc EXCEPT ![p] = "done"]
                            /\ UNCHANGED <<pending, thrown>>
    /\ UNCHANGED <<poolVars, envVars, sweepVars, gbVars, store, url>>
    /\ UNCHANGED extVars

(***************************************************************************)
(* Environment                                                             *)
(***************************************************************************)
\* the wall clock advances
Tick ==
    /\ now < MaxNow
    /\ now' = now + 1
    /\ UNCHANGED <<scrVars, browsers, healthy, closed, launched, envVars, pc, sweepVars, gbVars>>
    /\ UNCHANGED extVars

\* the TTL of a cache entry runs out
Expire(k) ==
    /\ store[k] # <<>>
    /\ store' = [store EXCEPT ![k] = <<>>]
    /\ UNCHANGED <<poolVars, envVars, pc, sweepVars, gbVars, url, metrics,
                   pending, dynOut, page, result, thrown, trace>>
    /\ UNCHANGED extVars

(***************************************************************************)
(* gatherInformation                                                       *)
(***************************************************************************)
\* the url lists handed to gatherInformation
RECURSIVE UrlListsOf(_)
UrlListsOf(n) ==
    IF n = 0 THEN {<<>>}
    ELSE UrlListsOf(n - 1) \cup
         {Append(l, u) : l \in {m \in UrlListsOf(n - 1) : Len(m) = n - 1}, u \in UrlNames}

UrlLists == UrlListsOf(MaxCalls)

\* the urls argument: <<>> when it is missing, else <<the list>>
UrlArgs == {<<>>} \cup {<<l>> : l \in UrlLists}

\* a gatherer that stores whatever the orchestrator returned
GatherWritesAlways(scrapingResult) == TRUE

\* if (scrapingResult.success) await setCachedContent(cacheKey, scrapingResult)
GatherWrites(scrapingResult) == scrapingResult.success

\* the url of the iteration in progress and the slot of its scrape call
GatherUrl == gather.urls[gather.i]

GatherCall == gather.calls

\* a gatherer that puts each result in front of the earlier ones
Unshift(results, pushed) == pushed \o results

\* results.push(scrapingResult)
Push(results, pushed) == results \o pushed

\* a gatherer without the test of its argument: a missing list makes the
\* loop throw
NeverNothing(arg) == FALSE

\* !urls || urls.length === 0
NothingToGather(arg) == arg = <<>> \/ Len(arg[1]) = 0

\* results.push(r) when r is given, then the next iteration or the return
GatherNext(g, pushed) ==
    [g EXCEPT !.results = Push(@, pushed),
              !.held = <<>>,
              !.i = IF g.i < Len(g.urls) THEN g.i + 1 ELSE g.i,
              !.pc = IF g.i < Len(g.urls) THEN "read" ELSE "done"]

\* a gatherer that starts the scrape and goes on to the next url without
\* waiting for it
ScrapeDetached(g) ==
    [g EXCEPT !.calls = @ + 1,
              !.i = IF g.i < Len(g.urls) THEN g.i + 1 ELSE g.i,
              !.reads = IF g.i < Len(g.urls) THEN @ + 1 ELSE @,
              !.pc = IF g.i < Len(g.urls) THEN "read" ELSE "done"]

\* const scrapingResult = await scrapeWebContent(url): the loop waits for
\* the call it made
ScrapeAwaited(g) == [g EXCEPT !.pc = "scrape", !.calls = @ + 1]

\* the next iteration, if any, has called getCachedContent
Reading(g) == [g EXCEPT !.reads = IF g.pc = "read" THEN @ + 1 ELSE @]

\* the call is made: without urls it returns at once (a loop over a
\* missing list would throw, one over an empty list would end at once),
\* otherwise the first iteration awaits getCachedContent
GatherStart(arg) ==
    /\ gather.pc = "idle"
    /\ gather' = [gather EXCEPT
                     !.given = arg # <<>>,
                     !.urls = IF arg = <<>> THEN <<>> ELSE arg[1],
                     !.i = IF arg = <<>> \/ Len(arg[1]) = 0 THEN 0 ELSE 1,
                     !.reads = IF arg = <<>> \/ Len(arg[1]) = 0 THEN 0 ELSE 1,
                     !.pc = IF NothingToGather(arg) THEN "done"
                            ELSE IF arg = <<>> THEN "threw"
                            ELSE IF Len(arg[1]) = 0 THEN "done"
                            ELSE "read"]
    /\ UNCHANGED <<poolVars, envVars, pc, sweepVars, gbVars, scrVars,
                   cleanup, reqVars, chat, roundTrip, utilVars>>

\* `await getCachedContent(cacheKey)` settles: a hit is pushed, a miss calls
\* scrapeWebContent(url), which runs up to its first await
GatherRead ==
    /\ gather.pc = "read"
    /\ \E storeFails \in BOOLEAN :
         LET cachedResult == GetCachedContent(GatherKey(GatherUrl), storeFails) IN
         IF cachedResult # <<>>
         THEN /\ gather' = Reading([GatherNext(gather, cachedResult) EXCEPT
                                         !.hits = @ \cup {gather.i}])
              /\ UNCHANGED <<poolVars, envVars, pc, sweepVars, gbVars, scrVars>>
         ELSE /\ ScrapeEnter(GatherCall + 1, GatherUrl)
              /\ gather' = ScrapeAwaited(gather)
              /\ UNCHANGED store
    /\ UNCHANGED <<cleanup, reqVars, chat, roundTrip, utilVars>>

\* scrapeWebContent has returned or thrown: a throw is logged by the catch,
\* a success starts the cache write, a failure is pushed as it is
GatherScraped ==
    /\ gather.pc = "scrape"
    /\ pc[GatherCall] \in {"done", "raised"}
    /\ IF pc[GatherCall] = "raised"
       THEN gather' = Reading([GatherNext(gather, <<>>) EXCEPT
                                  !.skipped = @ \cup {gather.i}])
       ELSE LET scrapingResult == result[GatherCall][1] IN
            IF GatherWrites(scrapingResult)
            THEN gather' = [gather EXCEPT !.pc = "write", !.writes = @ + 1,
                                          !.held = <<scrapingResult>>]
            ELSE gather' = Reading(GatherNext(gather, <<scrapingResult>>))
    /\ UNCHANGED <<poolVars, envVars, pc, sweepVars, gbVars, scrVars,
                   cleanup, reqVars, chat, roundTrip, utilVars>>

\* `await setCachedContent(cacheKey, scrapingResult)` settles, then the push
GatherWritten ==
    /\ gather.pc = "write"
    /\ \E storeFails \in BOOLEAN :
          store' = SetCachedContent(GatherKey(GatherUrl), gather.held, storeFails)
    /\ gather' = Reading(GatherNext(gather, gather.held))
    /\ UNCHANGED <<poolVars, envVars, pc, sweepVars, gbVars, url, metrics, pending,
                   dynOut, page, result, thrown, trace, cleanup, reqVars, chat, roundTrip, utilVars>>

(***************************************************************************)
(* Chat history: storeChat, getChatHistory and the POST handler            *)
(***************************************************************************)
\* redis.ltrim(key, 0, 49)
TRIM_STOP == 49

\* limit: number = 5
DEFAULT_LIMIT == 5

\* the limits getChatHistory is called with
Limits == {0, 1, 2, DEFAULT_LIMIT}

\* lengths of the list when the first request arrives
HistoryLengths == {0, 1, TRIM_STOP, TRIM_STOP + 1}

\* new Date().toISOString()
ToISOString(t) == <<"iso", t>>

\* the ChatEntry of the k-th storeChat call on the conversation
ChatEntryOf(k, t) ==
    [ userMessage |-> <<"message", k>>,
      aiResponse |-> <<"answer", k>>,
      timestamp |-> ToISOString(t) ]

\* a list element that is no JSON text
Malformed == << <<"{">> >>

IsJsonText(text) == \A i \in 1..Len(text) : Len(text[i]) = 2

\* the list left by n earlier storeChat calls, newest first; the element at
\* position bad, if any, was replaced by a malformed one
HistoryOf(n, bad) ==
    [i \in 1..n |-> IF i = bad THEN Malformed
                    ELSE StringifyFlat(ChatEntryOf(n - i + 1, 0))]

\* LRANGE key start stop on a list (0-based, inclusive, negative indexes
\* count from the end)
LRange(list, start, stop) ==
    LET n == Len(list)
        from == IF start < 0 THEN (IF n + start < 0 THEN 0 ELSE n + start) ELSE start
        to == IF stop < 0 THEN n + stop ELSE (IF stop > n - 1 THEN n - 1 ELSE stop)
    IN  IF from > to THEN <<>> ELSE SubSeq(list, from + 1, to + 1)

\* a trim that removes nothing
LTrimNothing(list) == list

\* LTRIM key 0 49
LTrim(list) == LRange(list, 0, TRIM_STOP)

\* rawHistory.map(JSON.parse or null).filter(entry !== null)
ParseEntries(rawHistory) ==
    LET kept == SelectSeq(rawHistory, IsJsonText)
    IN  [i \in 1..Len(kept) |-> ParseFlat(kept[i])]

\* getChatHistory(conversationId, limit): the value it resolves to
GetChatHistory(list, limit, storeFails) ==
    IF storeFails THEN <<>> ELSE ParseEntries(LRange(list, 0, limit - 1))

\* the body and status of NextResponse.json
MissingIdResponse ==
    [ status |-> 400, success |-> FALSE, message |-> "Conversation ID is required" ]

ErrorResponse(msg) ==
    [ status |-> 500, success |-> FALSE, message |-> "Internal server error",
      error |-> msg ]

AnswerResponse(aiResponse) ==
    [ status |-> 200, success |-> TRUE, aiResponse |-> aiResponse ]

StoreChatError == "Failed to store chat history"

UpstreamError == "upstream failure"

ZeroRequest ==
    [ pc |-> "idle", entry |-> <<>>, aiResponse |-> <<>>, storeChat |-> "none",
      response |-> <<>> ]

\* the getChatHistory call that settled last: its caller (0 for a direct
\* call), its limit, whether the store failed and the value it resolved to
Settled(caller, limit, storeFails) ==
    [ caller |-> caller, limit |-> limit, storeFails |-> storeFails,
      out |-> GetChatHistory(chat.history, limit, storeFails) ]

\* request r has not arrived and is the next one to arrive
MayArrive(r) ==
    /\ chat.req[r].pc = "idle"
    /\ IF r = 1 THEN TRUE ELSE chat.req[r - 1].pc # "idle"

chatRest == <<poolVars, envVars, pc, sweepVars, gbVars, scrVars, cleanup, reqVars, gather, roundTrip,
      utilVars>>

\* POST: the body is parsed; without a conversationId the answer is 400,
\* otherwise getChatHistory is awaited
PostStart(r) ==
    /\ MayArrive(r)
    /\ \E hasId \in BOOLEAN :
          chat' = [chat EXCEPT !.req[r] =
                     IF hasId THEN [@ EXCEPT !.pc = "history"]
                     ELSE [@ EXCEPT !.pc = "done", !.response = <<MissingIdResponse>>]]
    /\ UNCHANGED chatRest

\* getChatHistory(conversationId) settles; analysis, search and scraping
\* follow, then the generation of the answer is awaited
PostHistory(r) ==
    /\ chat.req[r].pc = "history"
    /\ \E storeFails \in BOOLEAN :
          chat' = [chat EXCEPT !.req[r] = [@ EXCEPT !.pc = "answer"],
                              !.read = <<Settled(r, DEFAULT_LIMIT, storeFails)>>]
    /\ UNCHANGED chatRest

\* the answer is produced and storeChat is called, which builds the entry
\* and awaits lpush; or a step before it threw and the catch answers 500
PostAnswered(r) ==
    /\ chat.req[r].pc = "answer"
    /\ \E ok \in BOOLEAN :
          chat' = IF ok
                  THEN [chat EXCEPT
                          !.calls = @ + 1,
                          !.req[r] = [@ EXCEPT
                             !.pc = "push",
                             !.aiResponse = <<ChatEntryOf(chat.calls + 1, now).aiResponse>>,
                             !.entry = <<ChatEntryOf(chat.calls + 1, now)>>,
                             !.storeChat = "running"]]
                  ELSE [chat EXCEPT
                          !.req[r] = [@ EXCEPT !.pc = "done",
                                               !.response = <<ErrorResponse(UpstreamError)>>]]
    /\ UNCHANGED chatRest

\* storeChat leaves with an error: its catch logs and throws, the catch of
\* POST answers 500
StoreChatThrew(q) ==
    [q EXCEPT !.pc = "done", !.storeChat = "threw",
              !.response = <<ErrorResponse(StoreChatError)>>]

\* `await redis.lpush(key, serializedEntry)` settles; ltrim is awaited next
PostPushed(r) ==
    /\ chat.req[r].pc = "push"
    /\ \E storeFails \in BOOLEAN :
          chat' = IF storeFails
                  THEN [chat EXCEPT !.req[r] = StoreChatThrew(@)]
                  ELSE [chat EXCEPT
                          !.history = <<StringifyFlat(chat.req[r].entry[1])>> \o @,
                          !.req[r] = [@ EXCEPT !.pc = "trim"]]
    /\ UNCHANGED chatRest

\* `await redis.ltrim(key, 0, 49)` settles; storeChat returns and POST
\* answers with the aiResponse
PostTrimmed(r) ==
    /\ chat.req[r].pc = "trim"
    /\ \E storeFails \in BOOLEAN :
          chat' = IF storeFails
                  THEN [chat EXCEPT !.untrimmed = @ + 1,
                                    !.req[r] = StoreChatThrew(@)]
                  ELSE [chat EXCEPT
                          !.history = LTrim(@),
                          !.untrimmed = 0,
                          !.req[r] = [@ EXCEPT
                             !.pc = "done", !.storeChat = "returned",
                             !.response = <<AnswerResponse(chat.req[r].aiResponse[1])>>]]
    /\ UNCHANGED chatRest

\* a call getChatHistory(conversationId, limit) settles
ReadHistory ==
    /\ \E limit \in Limits, storeFails \in BOOLEAN :
          chat' = [chat EXCEPT !.read = <<Settled(0, limit, storeFails)>>]
    /\ UNCHANGED chatRest

(***************************************************************************)
(* setCachedContent followed by getCachedContent on one key                *)
(***************************************************************************)
\* the metrics objects of the results handed to setCachedContent
RoundTripMetrics ==
    { Elapsed([startTime |-> PerformanceNow, success |-> s, method |-> how,
               totalTime |-> 0]) : s \in BOOLEAN, how \in {"cheerio", "puppeteer"} }

\* the ScrapingResults handed to setCachedContent
RoundTripResults ==
    UNION { {InvalidUrlResult(u, m), ValidationFailedResult(u, m),
             CaughtResult(u, FetchError, m)}
            \cup {SuccessResult(u, t, m.method, m) : t \in Served \ {"t_empty"}}
          : u \in UrlNames, m \in RoundTripMetrics }

\* what redis.get resolves to: the stored text, or the object the client
\* has deserialized from it
RedisGet(key, handBack) ==
    IF store[key] = <<>> THEN <<>>
    ELSE IF handBack = "object" /\ IsJsonText(store[key][1])
    THEN <<[type |-> "object", value |-> ParseJson(store[key][1])]>>
    ELSE <<[type |-> "string", value |-> store[key][1]]>>

\* a getCachedContent without the JSON.parse branch
ReturnObjectsOnly(cachedData) ==
    IF cachedData = <<>> \/ cachedData[1].type # "object" THEN <<>>
    ELSE <<cachedData[1].value>>

\* the body of getCachedContent after redis.get has resolved
ReturnCached(cachedData) ==
    IF cachedData = <<>> THEN <<>>
    ELSE IF cachedData[1].type = "object" THEN <<cachedData[1].value>>
    ELSE IF IsJsonText(cachedData[1].value) THEN <<ParseJson(cachedData[1].value)>>
    ELSE <<>>

roundTripRest ==
    <<poolVars, envVars, pc, sweepVars, gbVars, url, metrics, pending, dynOut, page,
      result, thrown, trace, cleanup, reqVars, gather, chat, utilVars>>

\* setCachedContent(key, content) is called and awaits redis.set
RoundTripSet ==
    /\ roundTrip.pc = "idle"
    /\ \E k \in Keys, r \in RoundTripResults :
          roundTrip' = [roundTrip EXCEPT !.pc = "set", !.key = <<k>>, !.content = <<r>>]
    /\ UNCHANGED <<store, roundTripRest>>

\* redis.set resolves; getCachedContent(key) is called and awaits redis.get
RoundTripWritten ==
    /\ roundTrip.pc = "set"
    /\ store' = SetCachedContent(roundTrip.key[1], roundTrip.content, FALSE)
    /\ roundTrip' = [roundTrip EXCEPT !.pc = "get"]
    /\ UNCHANGED roundTripRest

\* redis.get resolves with the text or with the deserialized object
RoundTripRead ==
    /\ roundTrip.pc = "get"
    /\ \E handBack \in {"string", "object"} :
          roundTrip' = [roundTrip EXCEPT
                          !.pc = "done",
                          !.handBack = handBack,
                          !.got = ReturnCached(RedisGet(roundTrip.key[1], handBack))]
    /\ UNCHANGED <<store, roundTripRest>>

(***************************************************************************)
(* Direct calls of getCachedContent and setCachedContent                   *)
(***************************************************************************)
\* const CACHE_DURATION = 3600
CACHE_DURATION == 3600

NullContentError == <<"Cannot cache null or undefined content">>

\* the content arguments of the direct calls: null, undefined, an object
\* that is no ScrapingResult, a success and a failure
DirectContents ==
    { [type |-> "null"], [type |-> "undefined"],
      [type |-> "object", value |-> [aiResponse |-> <<"answer", 1>>]],
      [type |-> "object",
       value |-> SuccessResult("u_page", "t_good", "cheerio", CHOOSE m \in RoundTripMetrics :
                                  m.success /\ m.method = "cheerio")],
      [type |-> "object",
       value |-> ValidationFailedResult("u_page", CHOOSE m \in RoundTripMetrics :
                                  ~m.success /\ m.method = "puppeteer")] }

\* the keys of the direct calls, one of each namespace
DirectKeys == {ScrapeKey("u_page"), GatherKey("u_page")}

\* content === null || content === undefined
IsNullish(content) == content.type \in {"null", "undefined"}

\* a setCachedContent without the test for null and undefined:
\* JSON.stringify(null) is the text null
CommandUnguarded(key, content) ==
    <<[ key |-> key,
        value |-> IF IsNullish(content) THEN <<<<"null", "null">>>>
                  ELSE Stringify(content.value),
        ex |-> CACHE_DURATION ]>>

\* the redis.set command setCachedContent issues, if any: both branches
\* serialize the content and pass { ex: CACHE_DURATION }
SetCommand(key, content) ==
    IF IsNullish(content) THEN <<>>
    ELSE <<[ key |-> key, value |-> Stringify(content.value), ex |-> CACHE_DURATION ]>>

\* the store after the command, which the store may refuse
Applied(command, storeFails) ==
    IF command = <<>> \/ storeFails THEN store
    ELSE [store EXCEPT ![command[1].key] = <<command[1].value>>]

\* what the catch of setCachedContent hands to logError
SetLogged(command, storeFails) ==
    IF command = <<>> THEN NullContentError
    ELSE IF storeFails THEN StoreError
    ELSE <<>>

\* a getCachedContent whose catch rethrows
GetSettledRethrown(handBack) == IF handBack = "error" THEN "rejected" ELSE "resolved"

\* how the promise of getCachedContent settles: both catch clauses log
\* and return null
GetSettled(handBack) == "resolved"

\* getCachedContent(key) with the store failing, or handing back the text
\* or the object
GetCachedContentVia(key, handBack) ==
    IF handBack = "error" THEN <<>> ELSE ReturnCached(RedisGet(key, handBack))

cacheCallRest ==
    <<poolVars, envVars, pc, sweepVars, gbVars, url, metrics, pending, dynOut, page,
      result, thrown, trace, cleanup, reqVars, gather, chat, roundTrip, validated, gate,
      processed, retry, analysis>>

MayCallCache == Len(cacheCall) < MaxCacheCalls

\* setCachedContent(key, content) runs and settles
DirectSet ==
    /\ MayCallCache
    /\ \E k \in DirectKeys, content \in DirectContents, storeFails \in BOOLEAN :
          LET command == SetCommand(k, content) IN
          /\ store' = Applied(command, storeFails)
          /\ cacheCall' = Append(cacheCall,
                 [ fn |-> "set", key |-> k, content |-> content, command |-> command,
                   storeFails |-> storeFails, before |-> store[k],
                   logged |-> SetLogged(command, storeFails),
                   settled |-> WriteOutcome(storeFails) ])
    /\ UNCHANGED cacheCallRest

\* getCachedContent(key) runs and settles
DirectGet ==
    /\ MayCallCache
    /\ \E k \in DirectKeys, handBack \in {"string", "object", "error"} :
          cacheCall' = Append(cacheCall,
                 [ fn |-> "get", key |-> k, handBack |-> handBack, before |-> store[k],
                   settled |-> GetSettled(handBack),
                   out |-> GetCachedContentVia(k, handBack) ])
    /\ UNCHANGED <<store, cacheCallRest>>

\* another client of the store leaves a text that is no JSON under a key
ForeignWrite(k) ==
    /\ store[k] # <<Malformed>>
    /\ store' = [store EXCEPT ![k] = <<Malformed>>]
    /\ UNCHANGED <<cacheCall, cacheCallRest>>

(***************************************************************************)
(* validateScrapingResults                                                 *)
(***************************************************************************)
\* JavaScript values: [type, ...] with the chars of a string, the value of
\* a number, the props of an object and the items of an array
HelloWorld == <<"h", "e", "l", "l", "o", " ", "w", "o", "r", "l", "d">>

StringValue(chars) == [type |-> "string", chars |-> chars]

ObjectValue(props) == [type |-> "object", props |-> props]

\* the elements of the arrays handed to validateScrapingResults
ElementValues ==
    { [type |-> "null"], [type |-> "undefined"],
      StringValue(<<"n", "o", "t", " ", "a", "n", " ", "o", "b", "j", "e", "c", "t">>),
      [type |-> "number", value |-> 0],
      [type |-> "array", items |-> <<>>],
      ObjectValue([success |-> TRUE]),
      ObjectValue([content |-> [type |-> "number", value |-> 5], success |-> TRUE]),
      ObjectValue([content |-> StringValue(<<>>), success |-> TRUE]),
      ObjectValue([content |-> StringValue(<<" ", "\n">>), success |-> TRUE]),
      ObjectValue([content |-> StringValue(HelloWorld), success |-> TRUE]),
      ObjectValue([content |-> StringValue(<<" ", "a", " ">>), success |-> FALSE]) }

RECURSIVE ArraysOf(_)
ArraysOf(n) ==
    IF n = 0 THEN {<<>>}
    ELSE ArraysOf(n - 1) \cup
         {Append(l, v) : l \in {m \in ArraysOf(n - 1) : Len(m) = n - 1}, v \in ElementValues}

\* the arguments: arrays of up to MaxElements elements and values that are
\* no array
ValidateArgs ==
    {[type |-> "array", items |-> l] : l \in ArraysOf(MaxElements)}
    \cup {[type |-> "undefined"], [type |-> "null"],
          ObjectValue([content |-> StringValue(HelloWorld), success |-> TRUE])}

\* the value as a condition: null, undefined, 0 and '' are falsy
Truthy(v) ==
    CASE v.type \in {"null", "undefined"} -> FALSE
      [] v.type = "number" -> v.value # 0
      [] v.type = "string" -> Len(v.chars) > 0
      [] OTHER -> TRUE

\* typeof v
TypeOf(v) == IF v.type \in {"null", "array"} THEN "object" ELSE v.type

\* v.content of a value that is not null or undefined
ContentProperty(v) ==
    IF v.type = "object" /\ "content" \in DOMAIN v.props THEN v.props.content
    ELSE [type |-> "undefined"]

\* a filter that does not trim the content
IsValidUntrimmed(element) ==
    /\ Truthy(element)
    /\ TypeOf(element) = "object"
    /\ TypeOf(ContentProperty(element)) = "string"
    /\ Len(ContentProperty(element).chars) > 0

\* result && typeof result === 'object' && typeof result.content === 'string'
\* && result.content.trim().length > 0
IsValid(element) ==
    /\ Truthy(element)
    /\ TypeOf(element) = "object"
    /\ TypeOf(ContentProperty(element)) = "string"
    /\ Len(Trim(ContentProperty(element).chars)) > 0

\* Array.isArray(results) ? results.filter(isValid) : []
ValidateScrapingResults(results) ==
    IF results.type # "array" THEN <<>> ELSE SelectSeq(results.items, IsValid)

\* a call of validateScrapingResults
Validate ==
    /\ validated = <<>>
    /\ \E results \in ValidateArgs :
          validated' = <<[results |-> results, out |-> ValidateScrapingResults(results)]>>
    /\ UNCHANGED <<poolVars, envVars, pc, sweepVars, gbVars, scrVars, cleanup, reqVars, gather,
                   chat, roundTrip, cacheCall, gate, processed, retry, analysis>>

(***************************************************************************)
(* isContentMeaningful called on texts of a given shape                    *)
(***************************************************************************)
\* a text is `words` copies of a word separated by sep, with whitespace in
\* front of it and after it, and possibly a blocked phrase as its last word
GateShapes ==
    [ lead : {<<>>, <<" ">>},
      trail : {<<>>, <<"\n">>},
      words : {1, 50, MIN_CONTENT_LENGTH - 2, MIN_CONTENT_LENGTH - 1, MIN_CONTENT_LENGTH,
               MIN_CONTENT_LENGTH + 1},
      word : {<<"a">>, <<"a", "b", ".">>, <<"a", "b", "c", "d", "!">>},
      sep : {<<" ">>, <<" ", "\n">>},
      blocked : BOOLEAN ]

TextOfShape(sh) ==
    sh.lead \o Repeat(sh.word, sh.sep, sh.words)
            \o (IF sh.blocked THEN <<" ", "4", "0", "4">> ELSE <<>>) \o sh.trail

\* a call of isContentMeaningful
Gate ==
    /\ gate = <<>>
    /\ \E sh \in GateShapes :
          gate' = <<[shape |-> sh, verdict |-> IsContentMeaningfulText(TextOfShape(sh))]>>
    /\ UNCHANGED <<poolVars, envVars, pc, sweepVars, gbVars, scrVars, cleanup, reqVars, gather,
                   chat, roundTrip, cacheCall, validated, processed, retry, analysis>>

(***************************************************************************)
(* processContentForAI and sanitizeContent                                 *)
(***************************************************************************)
\* The strings of the content processor are long: a string is held as the
\* sequence of its runs [ch, n], n >= 1 copies of the character ch, no two
\* neighbouring runs having the same character.
AppendRun(s, ch, n) ==
    IF n = 0 THEN s
    ELSE IF s # <<>> /\ s[Len(s)].ch = ch THEN [s EXCEPT ![Len(s)].n = @ + n]
    ELSE Append(s, [ch |-> ch, n |-> n])

\* the total length of the runs lo..hi of s, by halves
RECURSIVE SumRuns(_, _, _)
SumRuns(s, lo, hi) ==
    IF lo > hi THEN 0
    ELSE IF lo = hi THEN s[lo].n
    ELSE LET mid == (lo + hi) \div 2 IN SumRuns(s, lo, mid) + SumRuns(s, mid + 1, hi)

\* the string of a sequence of pieces [ch, n] with n >= 0: the empty pieces
\* go and neighbouring pieces of one character become one run
MergeRuns(pieces) ==
    LET f == SelectSeq(pieces, LAMBDA x : x.n > 0)
        endOf(i) == CHOOSE j \in i..Len(f) :
                        /\ \A t \in i..j : f[t].ch = f[i].ch
                        /\ j = Len(f) \/ f[j + 1].ch # f[i].ch
    IN  IF Len(f) = 0 THEN <<>>
        ELSE SelectSeq([i \in 1..Len(f) |->
                          [ch |-> f[i].ch,
                           n |-> IF i = 1 \/ f[i].ch # f[i - 1].ch
                                 THEN SumRuns(f, i, endOf(i)) ELSE 0]],
                       LAMBDA x : x.n > 0)

\* a + b
ConcatRuns(a, b) == MergeRuns(a \o b)

\* the runs of a sequence of characters
RunsOf(chars) ==
    IF Len(chars) = 0 THEN <<>>
    ELSE MergeRuns([i \in 1..Len(chars) |-> [ch |-> chars[i], n |-> 1]])

\* s.length
LengthOf(s) == SumRuns(s, 1, Len(s))

\* s.substring(0, k)
Substring(s, k) ==
    LET begun == {i \in 1..Len(s) : SumRuns(s, 1, i - 1) < k}
        m == Cardinality(begun)
    IN  IF m = 0 THEN <<>>
        ELSE [i \in 1..m |->
                 [ch |-> s[i].ch,
                  n |-> IF SumRuns(s, 1, i) <= k THEN s[i].n ELSE k - SumRuns(s, 1, i - 1)]]

\* the characters of the classes of sanitizeContent that the inputs hold
Punctuation == {"!", "?", ",", "."}
Quotes == {"'"}
ControlCharacters == {"U+0001", "U+007F"}

\* .replace(/(3 backticks)json|(3 backticks)/g, ''): the inputs hold no
\* letter j, each three backticks of a run go; U+0060 is the backtick
StripFences(s) ==
    IF Len(s) = 0 THEN <<>>
    ELSE MergeRuns([i \in 1..Len(s) |->
                      IF s[i].ch = "U+0060" THEN [ch |-> "U+0060", n |-> s[i].n % 3]
                      ELSE s[i]])

\* .replace(/<[^>]*>/g, ''): from a < to the first > after it
RECURSIVE StripTags(_)
StripTags(s) ==
    LET tags == {i \in 1..Len(s) : s[i].ch = "<" /\ \E j \in (i + 1)..Len(s) : s[j].ch = ">"}
    IN  IF tags = {} THEN s
        ELSE LET i == CHOOSE c \in tags : \A d \in tags : c <= d
                 closers == {j \in (i + 1)..Len(s) : s[j].ch = ">"}
                 j == CHOOSE c \in closers : \A d \in closers : c <= d
             IN  ConcatRuns(SubSeq(s, 1, i - 1),
                            StripTags(MergeRuns(<<[ch |-> ">", n |-> s[j].n - 1]>>
                                                \o SubSeq(s, j + 1, Len(s)))))

\* .replace(/\s+/g, ' '): done is what was replaced before s
CollapseWhitespace(done, s) ==
    LET all == done \o s
        spaced == IF Len(all) = 0 THEN <<>>
                  ELSE MergeRuns([i \in 1..Len(all) |->
                                    IF all[i].ch \in Whitespace THEN [ch |-> " ", n |-> 1]
                                    ELSE all[i]])
    IN  IF Len(spaced) = 0 THEN <<>>
        ELSE [i \in 1..Len(spaced) |->
                 IF spaced[i].ch = " " THEN [ch |-> " ", n |-> 1] ELSE spaced[i]]

\* .replace(/([!?,.]){2,}/g, '$1'): two or more punctuation characters in a
\* row become the last of them; held are the punctuation runs before s
CollapsePunctuation(s, held) ==
    LET all == held \o s
        punct(i) == all[i].ch \in Punctuation
        first(i) == CHOOSE j \in 1..i :
                        /\ \A t \in j..i : punct(t)
                        /\ j = 1 \/ ~punct(j - 1)
        last(i) == CHOOSE j \in i..Len(all) :
                        /\ \A t \in i..j : punct(t)
                        /\ j = Len(all) \/ ~punct(j + 1)
    IN  IF Len(all) = 0 THEN <<>>
        ELSE SelectSeq([i \in 1..Len(all) |->
                          IF ~punct(i) THEN all[i]
                          ELSE IF SumRuns(all, first(i), last(i)) < 2 THEN all[i]
                          ELSE IF i = last(i) THEN [ch |-> all[i].ch, n |-> 1]
                          ELSE [ch |-> all[i].ch, n |-> 0]],
                       LAMBDA x : x.n > 0)

\* .replace(/['\u201C\u201D]/g, '"')
NormalizeQuotes(s) ==
    IF Len(s) = 0 THEN <<>>
    ELSE MergeRuns([i \in 1..Len(s) |->
                      [ch |-> IF s[i].ch \in Quotes THEN "\"" ELSE s[i].ch, n |-> s[i].n]])

\* .replace(/[\x00-\x1F\x7F-\x9F]/g, '')
StripControlCharacters(s) ==
    IF Len(s) = 0 THEN <<>>
    ELSE MergeRuns([i \in 1..Len(s) |->
                      IF s[i].ch \in ControlCharacters THEN [ch |-> s[i].ch, n |-> 0]
                      ELSE s[i]])

\* .trim()
TrimRuns(s) ==
    LET keep == {i \in 1..Len(s) : s[i].ch \notin Whitespace} IN
    IF keep = {} THEN <<>>
    ELSE SubSeq(s, CHOOSE i \in keep : \A j \in keep : i <= j,
                   CHOOSE i \in keep : \A j \in keep : j <= i)

\* sanitizeContent(content)
SanitizeContent(content) ==
    TrimRuns(StripControlCharacters(NormalizeQuotes(CollapsePunctuation(
        CollapseWhitespace(<<>>, StripTags(StripFences(content))), <<>>))))

\* if (combinedContent.length > 30000)
MAX_COMBINED_LENGTH == 30000

TruncationSuffix ==
    RunsOf(<< ".", ".", ".", " ", "(", "c", "o", "n", "t", "e", "n", "t", " ",
              "t", "r", "u", "n", "c", "a", "t", "e", "d", " ", "f", "o", "r", " ",
              "l", "e", "n", "g", "t", "h", ")" >>)

\* source + result.content, with source = "Source: " + result.url + "\n" for
\* a url that is not empty
Attributed(r) ==
    IF UrlOf(r.url).chars = <<>> THEN r.content
    ELSE ConcatRuns(RunsOf(<<"S", "o", "u", "r", "c", "e", ":", " ">>
                           \o UrlOf(r.url).chars \o <<"\n">>),
                    r.content)

\* .join('\n\n---\n\n')
RECURSIVE Joined(_)
Joined(parts) ==
    IF parts = <<>> THEN <<>>
    ELSE IF Len(parts) = 1 THEN parts[1]
    ELSE ConcatRuns(ConcatRuns(parts[1], RunsOf(<<"\n", "\n", "-", "-", "-", "\n", "\n">>)),
                    Joined(Tail(parts)))

\* a cap that also cuts a text of exactly the largest length
ExceedsOrMeets(combinedContent) == LengthOf(combinedContent) >= MAX_COMBINED_LENGTH

Exceeds(combinedContent) == LengthOf(combinedContent) > MAX_COMBINED_LENGTH

\* processContentForAI(scrapingResults)
ProcessContentForAI(scrapingResults) ==
    LET combinedContent ==
            SanitizeContent(Joined([i \in 1..Len(scrapingResults) |->
                                       Attributed(scrapingResults[i])]))
    IN  [ content |-> IF Exceeds(combinedContent)
                      THEN ConcatRuns(Substring(combinedContent, MAX_COMBINED_LENGTH),
                                      TruncationSuffix)
                      ELSE combinedContent,
          wasFiltered |-> FALSE ]

\* the contents of the results handed to the processor
ProcessorContents ==
    { <<>>,
      <<[ch |-> "a", n |-> 5]>>,
      <<[ch |-> "a", n |-> 14000]>>,
      <<[ch |-> "a", n |-> MAX_COMBINED_LENGTH - 1]>>,
      <<[ch |-> "a", n |-> MAX_COMBINED_LENGTH]>>,
      <<[ch |-> "a", n |-> MAX_COMBINED_LENGTH + 1]>>,
      <<[ch |-> " ", n |-> 2], [ch |-> "a", n |-> MAX_COMBINED_LENGTH], [ch |-> "\n", n |-> 1]>>,
      <<[ch |-> "a", n |-> 10], [ch |-> " ", n |-> 31000], [ch |-> "\n", n |-> 2],
        [ch |-> "b", n |-> 10]>>,
      <<[ch |-> "<", n |-> 2], [ch |-> "a", n |-> 31000], [ch |-> ">", n |-> 2],
        [ch |-> "b", n |-> 20]>>,
      <<[ch |-> "a", n |-> 29990], [ch |-> ".", n |-> 8], [ch |-> "!", n |-> 3],
        [ch |-> "b", n |-> 9]>>,
      <<[ch |-> "U+0060", n |-> 7], [ch |-> "a", n |-> 29999], [ch |-> "'", n |-> 1],
        [ch |-> "U+0001", n |-> 40]>>,
      <<[ch |-> "a", n |-> 29999], [ch |-> " ", n |-> 1], [ch |-> "U+007F", n |-> 3],
        [ch |-> " ", n |-> 1], [ch |-> "b", n |-> 1]>> }

ProcessorResults ==
    [ url : {"u_empty", "u_page"}, content : ProcessorContents ]

RECURSIVE ResultListsOf(_)
ResultListsOf(n) ==
    IF n = 0 THEN {<<>>}
    ELSE ResultListsOf(n - 1) \cup
         {Append(l, r) : l \in {m \in ResultListsOf(n - 1) : Len(m) = n - 1},
                         r \in ProcessorResults}

\* a call of processContentForAI
Process ==
    /\ processed = <<>>
    /\ \E scrapingResults \in ResultListsOf(MaxResults) :
          processed' = <<[ scrapingResults |-> scrapingResults,
                           out |-> ProcessContentForAI(scrapingResults) ]>>
    /\ UNCHANGED <<poolVars, envVars, pc, sweepVars, gbVars, scrVars, cleanup, reqVars, gather,
                   chat, roundTrip, cacheCall, validated, gate, retry, analysis>>

(***************************************************************************)
(* The pool used by concurrent direct callers                              *)
(***************************************************************************)
\* the interval of the constructor is set, no cleanup call was made
ZeroCleanup ==
    [ timerOn |-> TRUE,
      pc |-> [c \in Cleanups |-> "idle"],
      awaited |-> [c \in Cleanups |-> {}],
      closeCalls |-> [b \in BrowserIds |-> 0],
      left |-> [c \in Cleanups |-> 0] ]

ZeroGather ==
    [ pc |-> "idle", given |-> TRUE, urls |-> <<>>, i |-> 0, calls |-> 0,
      reads |-> 0, writes |-> 0, hits |-> {}, skipped |-> {}, results |-> <<>>,
      held |-> <<>> ]

\* an empty list; calls counts the storeChat calls so far, untrimmed the
\* ltrim calls that failed since the last one that succeeded
ZeroChat ==
    [ history |-> <<>>, calls |-> 0, untrimmed |-> 0,
      req |-> [r \in Requests |-> ZeroRequest], read |-> <<>> ]

ZeroRoundTrip ==
    [ pc |-> "idle", key |-> <<>>, content |-> <<>>, handBack |-> "none",
      got |-> <<>> ]

\* the pool after k earlier getBrowser calls have launched k sessions
PoolOf(k) == [i \in 1..k |-> [browser |-> i, lastUsed |-> 0]]

(***************************************************************************)
(* withRetry                                                               *)
(***************************************************************************)
\* '429 Too Many Requests'
RateLimitPhrase ==
    << "4", "2", "9", " ", "T", "o", "o", " ", "M", "a", "n", "y", " ",
       "R", "e", "q", "u", "e", "s", "t", "s" >>

ErrorOf(message) == [type |-> "Error", message |-> message]

\* what error?.message.includes(...) throws for a value without a message
IncludesTypeError ==
    [type |-> "TypeError", message |-> <<"undefined", ".", "includes">>]

\* the values the operation rejects with: two rate-limit errors, two other
\* errors, a string and null
Rejections ==
    { ErrorOf(RateLimitPhrase),
      ErrorOf(<<"G", ":", " ">> \o RateLimitPhrase \o <<".">>),
      ErrorOf(<<"5", "0", "0">>),
      ErrorOf(<<"4", "2", "9", " ", "t", "o", "o", " ", "m", "a", "n", "y">>),
      [type |-> "string", chars |-> <<"b", "o", "o", "m">>],
      [type |-> "null"] }

Outcomes ==
    {[ok |-> TRUE, value |-> "v"]} \cup {[ok |-> FALSE, value |-> r] : r \in Rejections}

\* maxRetries and delay of the calls; 3 and 1000 are the defaults
MaxRetriesArgs == 0..MaxRetriesArg
DelayArgs == {0, 250, 1000}

\* error?.message.includes('429 Too Many Requests'): "yes", "no", or
\* "throws" when the value is not null and has no message
RateLimited(error) ==
    IF error.type \in {"null", "undefined"} THEN "no"
    ELSE IF "message" \notin DOMAIN error THEN "throws"
    ELSE IF Includes(error.message, RateLimitPhrase) THEN "yes"
    ELSE "no"

\* a backoff that does not grow
BackoffConstant(delay, attempt) == delay

\* delay * attempt
Backoff(delay, attempt) == delay * attempt

\* for (...; attempt <= maxRetries; ...): the operation is called, or the
\* loop is over and lastError is thrown
LoopTest(r) ==
    IF r.attempt <= r.maxRetries
    THEN [r EXCEPT !.pc = "operation", !.calls = Append(@, r.attempt)]
    ELSE [r EXCEPT !.pc = "threw", !.out = <<r.lastError>>]

ZeroRetry ==
    [ pc |-> "idle", maxRetries |-> 0, delay |-> 0, attempt |-> 0,
      lastError |-> [type |-> "null"], calls |-> <<>>, failed |-> <<>>,
      waits |-> <<>>, out |-> <<>> ]

retryRest ==
    UNCHANGED <<poolVars, envVars, pc, sweepVars, gbVars, scrVars, cleanup, reqVars, gather,
                chat, roundTrip, cacheCall, validated, gate, processed, analysis>>

\* withRetry(operation, maxRetries, delay) up to the first await
WithRetryStart(maxRetries, delay) ==
    /\ retry.pc = "idle"
    /\ retry' = LoopTest([ZeroRetry EXCEPT !.maxRetries = maxRetries, !.delay = delay,
                                           !.attempt = 1])
    /\ retryRest

\* await operation() has settled
OperationSettled(outcome) ==
    /\ retry.pc = "operation"
    /\ retry' =
         IF outcome.ok
         THEN [retry EXCEPT !.pc = "returned", !.out = <<outcome.value>>]
         ELSE LET error == outcome.value
                  caught == [retry EXCEPT !.lastError = error,
                                          !.failed = Append(@, error)]
              IN  CASE RateLimited(error) = "yes" ->
                         [caught EXCEPT !.pc = "sleeping",
                                        !.waits = Append(@, Backoff(retry.delay, retry.attempt))]
                    [] RateLimited(error) = "no" ->
                         [caught EXCEPT !.pc = "threw", !.out = <<error>>]
                    [] RateLimited(error) = "throws" ->
                         [caught EXCEPT !.pc = "threw", !.out = <<IncludesTypeError>>]
    /\ retryRest

\* the timer of the backoff has fired: attempt++ and the loop test
BackoffElapsed ==
    /\ retry.pc = "sleeping"
    /\ retry' = LoopTest([retry EXCEPT !.attempt = @ + 1])
    /\ retryRest


(***************************************************************************)
(* analyzeQueryIntent                                                      *)
(***************************************************************************)
\* confidence scores are held in tenths: 0.5 is 5 and 1.0 is 10
MIN_CONFIDENCE_SCORE == 5
FULL_CONFIDENCE == 10

\* the characters of s from position i on
From(s, i) == SubSeq(s, i, Len(s))

\* the position after a match of https?:\/\/[^\s]+ that begins at i, or 0
UrlEndAt(s, i) ==
    LET scheme == IF StartsWith(From(s, i), <<"h", "t", "t", "p", "s", ":", "/", "/">>) THEN 8
                  ELSE IF StartsWith(From(s, i), <<"h", "t", "t", "p", ":", "/", "/">>) THEN 7
                  ELSE 0
        stops == {j \in (i + scheme)..Len(s) : s[j] \in Whitespace}
        end == IF stops = {} THEN Len(s) + 1 ELSE CHOOSE j \in stops : \A k \in stops : j <= k
    IN  IF scheme = 0 \/ end = i + scheme THEN 0 ELSE end

\* query.match(/(https?:\/\/[^\s]+)/g) || [], scanning from position i
RECURSIVE MatchUrls(_, _)
MatchUrls(s, i) ==
    IF i > Len(s) THEN <<>>
    ELSE IF UrlEndAt(s, i) = 0 THEN MatchUrls(s, i + 1)
    ELSE <<SubSeq(s, i, UrlEndAt(s, i) - 1)>> \o MatchUrls(s, UrlEndAt(s, i))

ExtractUrls(query) == MatchUrls(query, 1)

\* the digit k of the numbered list
Digit(k) == <<"1", "2", "3", "4", "5", "6", "7">>[k]

\* the position of "\n", the digit k, ".", " " in s
MarkerAt(s, p, k) ==
    /\ p + 3 <= Len(s)
    /\ SubSeq(s, p, p + 3) = <<"\n", Digit(k), ".", " ">>

\* the positions from which items k..7 of the list can be matched when item
\* k - 1 begins at from: (.+) takes at least one character, and being greedy
\* the latest marker from which the rest matches
RECURSIVE MarkerFor(_, _, _)
MarkerFor(s, from, k) ==
    LET fits == {p \in (from + 1)..Len(s) :
                   /\ MarkerAt(s, p, k)
                   /\ IF k = 7 THEN p + 4 <= Len(s) ELSE MarkerFor(s, p + 4, k + 1) # 0}
    IN  IF fits = {} THEN 0 ELSE CHOOSE p \in fits : \A q \in fits : q <= p

\* parseListResponse(response): <<the seven trimmed items>>, or <<>> for null
ParseListResponse(response) ==
    IF ~StartsWith(response, <<"1", ".", " ">>) \/ MarkerFor(response, 4, 2) = 0
    THEN <<>>
    ELSE LET at[k \in 1..8] ==
                 IF k = 1 THEN 0
                 ELSE IF k = 8 THEN Len(response) + 1
                 ELSE MarkerFor(response, at[k - 1] + 4, k)
         IN  << [k \in 1..7 |-> Trim(SubSeq(response, at[k] + 4, at[k + 1] - 1))] >>

\* searchQuery.replace(/^["']|["']$/g, '')
Unquoted(s) ==
    LET front == IF s # <<>> /\ s[1] \in {"\"", "'"} THEN Tail(s) ELSE s
    IN  IF front # <<>> /\ front[Len(front)] \in {"\"", "'"}
        THEN SubSeq(front, 1, Len(front) - 1)
        ELSE front

TrueText == <<"t", "r", "u", "e">>
NullValue == [type |-> "null"]

\* the analysis returned for a query with URLs
UrlAnalysis(extractedUrls) ==
    [ isCasual |-> FALSE, needsSearch |-> FALSE, reasoning |-> "urls",
      suggestedApproach |-> "scrape", searchQuery |-> NullValue,
      confidenceScore |-> FULL_CONFIDENCE, extractedUrls |-> extractedUrls,
      isFollowUp |-> FALSE ]

\* the analysis read from the seven items of the list
ParsedAnalysis(items, extractedUrls) ==
    [ isCasual |-> items[1] = TrueText, needsSearch |-> items[2] = TrueText,
      reasoning |-> items[3], suggestedApproach |-> items[4],
      searchQuery |-> IF items[5] = <<"n", "u", "l", "l">> THEN NullValue
                      ELSE [type |-> "string", chars |-> Unquoted(items[5])],
      confidenceScore |-> FULL_CONFIDENCE, extractedUrls |-> extractedUrls,
      isFollowUp |-> items[7] = TrueText,
      specificFocus |-> IF items[6] = <<"n", "o", "n", "e">> THEN NullValue
                        ELSE [type |-> "string", chars |-> items[6]] ]

\* createFallbackAnalysis(extractedUrls)
CreateFallbackAnalysis(extractedUrls) ==
    [ isCasual |-> TRUE, needsSearch |-> FALSE, reasoning |-> "fallback",
      suggestedApproach |-> "conversational",
      confidenceScore |-> MIN_CONFIDENCE_SCORE, extractedUrls |-> extractedUrls,
      isFollowUp |-> FALSE, specificFocus |-> NullValue ]

\* the queries handed to analyzeQueryIntent
Queries ==
    { <<"h", "i">>,
      <<"f", "t", "p", ":", "/", "/", "a">>,
      <<"h", "t", "t", "p", "s", ":", "/", "/">>,
      <<"h", "t", "t", "p", ":", "/", "/", " ", "a">>,
      <<"s", "e", "e", " ", "h", "t", "t", "p", "s", ":", "/", "/", "a", " ", "o", "k">>,
      <<"h", "t", "t", "p", ":", "/", "/", "b", "\n", "h", "t", "t", "p", "s", ":", "/", "/", "a">>,
      <<"x", "h", "t", "t", "p", "s", ":", "/", "/", "a", ",">> }

Histories == {<<>>, <<"m1">>, <<"m1", "m2">>}

\* the answers of the model: the list as asked for, a list with a quoted
\* search query and padded items, a list whose third item holds a line
\* like a marker, and texts that are not the list
ListAsAsked ==
    << "1", ".", " ", "t", "r", "u", "e", "\n", "2", ".", " ", "f", "a", "l", "s", "e", "\n",
       "3", ".", " ", "r", "\n", "4", ".", " ", "a", "\n",
       "5", ".", " ", "n", "u", "l", "l", "\n", "6", ".", " ", "n", "o", "n", "e", "\n",
       "7", ".", " ", "f", "a", "l", "s", "e" >>

ListWithSearch ==
    << "1", ".", " ", "f", "a", "l", "s", "e", "\n", "2", ".", " ", "t", "r", "u", "e", " ", "\n",
       "3", ".", " ", "r", "\n", "4", ".", " ", "s", "\n", "4", ".", " ", "a", "\n",
       "5", ".", " ", "\"", "q", "\"", "\n", "6", ".", " ", "f", "\n",
       "7", ".", " ", "t", "r", "u", "e", "\n" >>

RawResponses ==
    { ListAsAsked,
      ListWithSearch,
      SubSeq(ListAsAsked, 1, Len(ListAsAsked) - 9),
      SubSeq(ListAsAsked, 1, Len(ListAsAsked) - 5),
      <<"O", "K", ":", "\n">> \o ListAsAsked,
      <<"s", "o", "r", "r", "y">>,
      <<>> }

\* generateContent rejects, response.text() throws, or a text is given
ModelOutcomes ==
    {[kind |-> "rejects"], [kind |-> "textThrows"]} \cup
    {[kind |-> "text", raw |-> raw] : raw \in RawResponses}

ZeroAnalysis ==
    [ pc |-> "idle", query |-> <<>>, chatHistory |-> <<>>, extractedUrls |-> <<>>,
      prompts |-> <<>>, outcome |-> <<>>, out |-> <<>> ]

analysisRest ==
    UNCHANGED <<poolVars, envVars, pc, sweepVars, gbVars, scrVars, cleanup, reqVars, gather,
                chat, roundTrip, cacheCall, validated, gate, processed, retry>>

\* a failure inside the try block that leaves analyzeQueryIntent
AnalysisRethrown(a) == [a EXCEPT !.pc = "threw", !.out = <<"error">>]

\* catch (error) { return createFallbackAnalysis(extractedUrls) }
AnalysisCaught(a) == [a EXCEPT !.pc = "returned", !.out = <<CreateFallbackAnalysis(a.extractedUrls)>>]

\* analyzeQueryIntent(query, chatHistory) up to its first await
AnalyzeStart(query, chatHistory) ==
    /\ analysis.pc = "idle"
    /\ LET extractedUrls == ExtractUrls(query)
           called == [ZeroAnalysis EXCEPT !.query = query, !.chatHistory = chatHistory,
                                          !.extractedUrls = extractedUrls]
       IN  analysis' =
             IF Len(extractedUrls) > 0
             THEN [called EXCEPT !.pc = "returned", !.out = <<UrlAnalysis(extractedUrls)>>]
             ELSE [called EXCEPT !.pc = "getModel"]
    /\ analysisRest

\* await genAI.getGenerativeModel(...) is over: model.generateContent(prompt)
GenerateContent ==
    /\ analysis.pc = "getModel"
    /\ analysis' = [analysis EXCEPT !.pc = "generate",
                       !.prompts = Append(@, [query |-> analysis.query,
                                              chatHistory |-> analysis.chatHistory])]
    /\ analysisRest

\* await model.generateContent(prompt) has settled
ModelSettled(outcome) ==
    /\ analysis.pc = "generate"
    /\ LET settled == [analysis EXCEPT !.outcome = <<outcome>>] IN
       analysis' =
         IF outcome.kind # "text" THEN AnalysisCaught(settled)
         ELSE IF ParseListResponse(outcome.raw) = <<>> THEN AnalysisCaught(settled)
         ELSE [settled EXCEPT !.pc = "returned",
                  !.out = <<ParsedAnalysis(ParseListResponse(outcome.raw)[1],
                                           analysis.extractedUrls)>>]
    /\ analysisRest


(***************************************************************************)
(* POST, one request step by step                                          *)
(***************************************************************************)
MAX_SCRAPING_RESULTS == 5
MAX_SEARCH_RESULTS == 5

\* most urls a message carries
MaxMessageUrls == 7

SeeUrl == <<"s", "e", "e", " ">> \o UrlOf("u_page").chars

RECURSIVE ManyUrls(_)
ManyUrls(n) == IF n = 0 THEN <<>> ELSE UrlOf("u_page").chars \o <<" ">> \o ManyUrls(n - 1)

\* the bodies req.json() resolves to: message and conversationId as sent,
\* undefined for a property the body lacks
Bodies ==
    [ message : { StringValue(<<"h", "i">>), StringValue(SeeUrl),
                  StringValue(ManyUrls(MaxMessageUrls)), [type |-> "undefined"] },
      conversationId : { StringValue(<<"c", "1">>), StringValue(<<>>),
                         [type |-> "undefined"] } ]

InvalidJson == "Unexpected token"
NoMatchMethod == "Cannot read properties of undefined (reading 'match')"
GenerateError == "Failed to generate AI response"

\* the name of a url the scrape model knows
UrlNameOf(chars) ==
    CHOOSE u \in UrlNames : UrlOf(u).type = "string" /\ UrlOf(u).chars = chars

\* what scrapeWebContent did for one url of the list: it returned a success
\* of either strategy or one of its failures, or it threw and the gatherer's
\* catch pushed nothing
ScrapeKinds == {"cheerio", "puppeteer", "rejected", "caught", "thrown"}

SettledMetrics(ok, how) ==
    [ startTime |-> "ms", success |-> ok, method |-> how, totalTime |-> "ms" ]

ScrapedAs(kind, u) ==
    CASE kind = "cheerio"   -> <<SuccessResult(u, "t_good", "cheerio", SettledMetrics(TRUE, "cheerio"))>>
      [] kind = "puppeteer" -> <<SuccessResult(u, "t_other", "puppeteer", SettledMetrics(TRUE, "puppeteer"))>>
      [] kind = "rejected"  -> <<ValidationFailedResult(u, SettledMetrics(FALSE, "puppeteer"))>>
      [] kind = "caught"    -> <<CaughtResult(u, FetchError, SettledMetrics(FALSE, "cheerio"))>>
      [] kind = "thrown"    -> <<>>

\* the list gatherInformation returns for the urls when the first `split`
\* of them end as `first` and the others as `rest`
RECURSIVE GatheredFrom(_, _, _, _)
GatheredFrom(urls, split, first, rest) ==
    IF urls = <<>> THEN <<>>
    ELSE ScrapedAs(IF split > 0 THEN first ELSE rest, UrlNameOf(Head(urls)))
         \o GatheredFrom(Tail(urls), IF split > 0 THEN split - 1 ELSE 0, first, rest)

\* return { scrapingResults: results }
GatherInformation(urls, split, first, rest) ==
    ObjectValue([scrapingResults |->
                    [type |-> "array", items |-> GatheredFrom(urls, split, first, rest)]])

\* gatheredInfo.scrapingResults
ScrapingResultsProperty(v) ==
    IF v.type = "object" /\ "scrapingResults" \in DOMAIN v.props
    THEN v.props.scrapingResults
    ELSE [type |-> "undefined"]

\* a ScrapingResult as the JavaScript object validateScrapingResults tests
ResultValue(r) ==
    ObjectValue([content |-> StringValue(TextOf(r.content)), success |-> r.success,
                 url |-> r.url])

ResultValues(results) ==
    IF results.type # "array" THEN results
    ELSE [type |-> "array",
          items |-> [i \in 1..Len(results.items) |-> ResultValue(results.items[i])]]

\* a handler that hands over every validated result
SliceAll(list, end) == list

\* scrapingResults.slice(0, end)
Slice(list, end) == SubSeq(list, 1, IF Len(list) < end THEN Len(list) ELSE end)

\* processedContent.content, kept as the call that computes it: the text
\* begins with "Source: " and the url of the first result, so it is not empty
ProcessedContent(scrapingResults) == <<[processContentForAI |-> scrapingResults]>>

\* createEnhancedPrompt: the Context block is there when context is truthy
CreateEnhancedPrompt(query, context) ==
    [ query |-> query,
      context |-> IF Len(context) > 0 THEN <<"Context:\n", context, "\n">> ELSE <<>> ]

ZeroPost ==
    [ pc |-> "idle", body |-> <<>>, chatHistory |-> <<>>, queryAnalysis |-> <<>>,
      degraded |-> FALSE, searchUrls |-> <<>>, gathered |-> <<>>, scrapingResults |-> <<>>,
      handed |-> <<>>, prompt |-> <<>>, aiResponse |-> <<>>, history |-> <<>>,
      pushes |-> 0, response |-> <<>> ]

postRest ==
    UNCHANGED <<poolVars, envVars, pc, sweepVars, gbVars, scrVars, cleanup, gather, chat,
                roundTrip, utilVars, handle, aged>>

\* catch (error): the 500 response with error.message
PostCaught(q, msg) == [q EXCEPT !.pc = "responded", !.response = <<ErrorResponse(msg)>>]

\* Step 3 and the call of generateProgressiveResponse
Prompted(q, scrapingResults) ==
    LET sliced == Slice(scrapingResults, MAX_SCRAPING_RESULTS) IN
    [q EXCEPT !.scrapingResults = sliced,
              !.handed = IF Len(sliced) > 0 THEN <<sliced>> ELSE <<>>,
              !.prompt = <<CreateEnhancedPrompt(
                             q.body[1].message,
                             IF Len(sliced) > 0
                             THEN ProcessedContent(sliced)
                             ELSE <<>>)>>,
              !.pc = "generate"]

\* POST up to `await req.json()`
ReqArrives ==
    /\ post.pc = "idle"
    /\ post' = [post EXCEPT !.pc = "json"]
    /\ postRest

\* req.json() settles: a rejection goes to the catch, a body without a
\* conversationId is answered 400, otherwise getChatHistory is called
ReqParsed ==
    /\ post.pc = "json"
    /\ \/ post' = PostCaught(post, InvalidJson)
       \/ \E body \in Bodies :
             post' = IF ~Truthy(body.conversationId)
                     THEN [post EXCEPT !.pc = "responded", !.body = <<body>>,
                                       !.response = <<MissingIdResponse>>]
                     ELSE [post EXCEPT !.pc = "history", !.body = <<body>>]
    /\ postRest

\* getChatHistory settles (it resolves to [] when the store fails) and
\* analyzeQueryIntent is called
ReqHistory ==
    /\ post.pc = "history"
    /\ \E chatHistory \in Histories :
          post' = [post EXCEPT !.pc = "analyze", !.chatHistory = chatHistory]
    /\ postRest

\* analyzeQueryIntent settles: it rejects when message has no match method,
\* resolves at once for a message with urls, and otherwise resolves to what
\* it read from the model's answer or to its fallback.  Step 2 begins.
ReqAnalyzed ==
    /\ post.pc = "analyze"
    /\ LET message == post.body[1].message IN
       IF message.type # "string"
       THEN post' = PostCaught(post, NoMatchMethod)
       ELSE \E outcome \in ModelOutcomes :
            LET extractedUrls == ExtractUrls(message.chars)
                parsed == IF outcome.kind = "text" THEN ParseListResponse(outcome.raw)
                          ELSE <<>>
                queryAnalysis ==
                    IF Len(extractedUrls) > 0 THEN UrlAnalysis(extractedUrls)
                    ELSE IF parsed = <<>> THEN CreateFallbackAnalysis(extractedUrls)
                    ELSE ParsedAnalysis(parsed[1], extractedUrls)
                analysed == [post EXCEPT
                               !.queryAnalysis = <<queryAnalysis>>,
                               !.degraded = Len(extractedUrls) = 0 /\ parsed = <<>>,
                               !.searchUrls = queryAnalysis.extractedUrls]
            IN  post' = IF Len(analysed.searchUrls) > 0
                        THEN [analysed EXCEPT !.pc = "gather"]
                        ELSE IF queryAnalysis.needsSearch
                        THEN [analysed EXCEPT !.pc = "search"]
                        ELSE Prompted(analysed, <<>>)
    /\ postRest

\* googleSearch settles: up to MAX_SEARCH_RESULTS results, none on an error
ReqSearched ==
    /\ post.pc = "search"
    /\ \E n \in 0..MAX_SEARCH_RESULTS :
          LET searchUrls == [i \in 1..n |-> UrlOf("u_page").chars] IN
          post' = IF Len(searchUrls) > 0
                  THEN [post EXCEPT !.searchUrls = searchUrls, !.pc = "gather"]
                  ELSE Prompted([post EXCEPT !.searchUrls = searchUrls], <<>>)
    /\ postRest

\* gatherInformation settles: validate, slice, Step 3
ReqGathered ==
    /\ post.pc = "gather"
    /\ \E split \in 0..Len(post.searchUrls), first, rest \in ScrapeKinds :
          LET gatheredInfo == GatherInformation(post.searchUrls, split, first, rest)
              scrapingResults ==
                  ValidateScrapingResults(ResultValues(ScrapingResultsProperty(gatheredInfo)))
          IN  post' = Prompted([post EXCEPT !.gathered = <<gatheredInfo>>], scrapingResults)
    /\ postRest

\* generateProgressiveResponse settles: its catch rethrows, which ends in
\* the catch of POST; otherwise storeChat is called and awaits lpush
ReqAnswered ==
    /\ post.pc = "generate"
    /\ \E ok \in BOOLEAN :
          post' = IF ok
                  THEN [post EXCEPT !.pc = "lpush", !.aiResponse = <<"answer">>]
                  ELSE PostCaught(post, GenerateError)
    /\ postRest

\* a store that applies the push twice
LPushedTwice(q) ==
    LET chatEntry == [userMessage |-> q.body[1].message, aiResponse |-> q.aiResponse[1]] IN
    [q EXCEPT !.pc = "ltrim", !.pushes = @ + 2, !.history = <<chatEntry, chatEntry>> \o @]

\* redis.lpush(key, serializedEntry) was applied; ltrim is called
LPushed(q) ==
    LET chatEntry == [userMessage |-> q.body[1].message, aiResponse |-> q.aiResponse[1]] IN
    [q EXCEPT !.pc = "ltrim", !.pushes = @ + 1, !.history = <<chatEntry>> \o @]

\* `await redis.lpush(...)` settles
ReqPushed ==
    /\ post.pc = "lpush"
    /\ \E storeFails \in BOOLEAN :
          post' = IF storeFails
                  THEN PostCaught(post, StoreChatError)
                  ELSE LPushed(post)
    /\ postRest

\* `await redis.ltrim(...)` settles; Step 6
ReqTrimmed ==
    /\ post.pc = "ltrim"
    /\ \E storeFails \in BOOLEAN :
          post' = IF storeFails
                  THEN PostCaught(post, StoreChatError)
                  ELSE [post EXCEPT !.pc = "responded",
                                    !.response = <<AnswerResponse(post.aiResponse[1])>>]
    /\ postRest

(***************************************************************************)
(* handleQuery                                                             *)
(***************************************************************************)
HANDLE_SEARCH_RESULTS == 3

\* validatedResults.map(result => result.content).join('\n\n')
RECURSIVE JoinContents(_)
JoinContents(validatedResults) ==
    IF validatedResults = <<>> THEN <<>>
    ELSE IF Len(validatedResults) = 1 THEN validatedResults[1].props.content.chars
    ELSE validatedResults[1].props.content.chars \o <<"\n", "\n">>
         \o JoinContents(Tail(validatedResults))

ZeroHandle ==
    [ pc |-> "idle", query |-> <<>>, chatHistory |-> <<>>, queryAnalysis |-> <<>>,
      searchUrls |-> <<>>,
      gathered |-> <<>>, validatedResults |-> <<>>, out |-> <<>> ]

handleRest ==
    UNCHANGED <<poolVars, envVars, pc, sweepVars, gbVars, scrVars, cleanup, gather, chat,
                roundTrip, utilVars, post, aged>>

\* the queries handed to handleQuery
HandleQueries == {<<"h", "i">>, SeeUrl, ManyUrls(2)}

\* the last return of handleQuery: the prompt with context ''
DirectPrompt(h) ==
    [h EXCEPT !.pc = "returned", !.out = <<CreateEnhancedPrompt(h.query, <<>>)>>]

\* const validatedResults = validateScrapingResults(scrapingResults) and the
\* test that follows: the prompt with the joined contents, or on to after
HandleValidated(h, scrapingResults, after) ==
    LET validatedResults == ValidateScrapingResults(ResultValues(scrapingResults))
        checked == [h EXCEPT !.gathered = Append(@, scrapingResults),
                                !.validatedResults = validatedResults]
    IN  IF Len(validatedResults) > 0
        THEN [checked EXCEPT
                !.pc = "returned",
                !.out = <<CreateEnhancedPrompt(h.query, JoinContents(validatedResults))>>]
        ELSE IF after = "search" /\ h.queryAnalysis[1].needsSearch
        THEN [checked EXCEPT !.pc = "search"]
        ELSE DirectPrompt(checked)

\* handleQuery(query, conversationId, chatHistory) up to its first await
HandleQuery ==
    /\ handle.pc = "idle"
    /\ \E query \in HandleQueries, chatHistory \in Histories :
          handle' = [handle EXCEPT !.pc = "analyze", !.query = query,
                                   !.chatHistory = chatHistory]
    /\ handleRest

\* analyzeQueryIntent settles
HandleAnalyzed ==
    /\ handle.pc = "analyze"
    /\ \E outcome \in ModelOutcomes :
          LET extractedUrls == ExtractUrls(handle.query)
              parsed == IF outcome.kind = "text" THEN ParseListResponse(outcome.raw)
                        ELSE <<>>
              queryAnalysis ==
                  IF Len(extractedUrls) > 0 THEN UrlAnalysis(extractedUrls)
                  ELSE IF parsed = <<>> THEN CreateFallbackAnalysis(extractedUrls)
                  ELSE ParsedAnalysis(parsed[1], extractedUrls)
              analysed == [handle EXCEPT !.queryAnalysis = <<queryAnalysis>>]
          IN  handle' = IF Len(queryAnalysis.extractedUrls) > 0
                        THEN [analysed EXCEPT !.pc = "gatherUrls"]
                        ELSE IF queryAnalysis.needsSearch
                        THEN [analysed EXCEPT !.pc = "search"]
                        ELSE DirectPrompt(analysed)
    /\ handleRest

\* gatherInformation(query, conversationId, queryAnalysis.extractedUrls)
\* settles; what it resolved to is handed to validateScrapingResults
HandleGatheredUrls ==
    /\ handle.pc = "gatherUrls"
    /\ LET urls == handle.queryAnalysis[1].extractedUrls IN
       \E split \in 0..Len(urls), first, rest \in ScrapeKinds :
          handle' = HandleValidated(handle, GatherInformation(urls, split, first, rest),
                                    "search")
    /\ handleRest

\* googleSearch(queryAnalysis.searchQuery || query, 3) settles and
\* gatherInformation is called with the urls of the results
HandleSearched ==
    /\ handle.pc = "search"
    /\ \E n \in 0..HANDLE_SEARCH_RESULTS :
          handle' = [handle EXCEPT !.pc = "gatherSearch",
                       !.searchUrls = [i \in 1..n |-> UrlOf("u_page").chars]]
    /\ handleRest

\* gatherInformation(query, conversationId, searchUrls) settles
HandleGatheredSearch ==
    /\ handle.pc = "gatherSearch"
    /\ LET searchUrls == handle.searchUrls IN
       \E split \in 0..Len(searchUrls), first, rest \in ScrapeKinds :
          handle' = HandleValidated(handle, GatherInformation(searchUrls, split, first, rest),
                                    "return")
    /\ handleRest

(***************************************************************************)
(* The two caches with the age of what they hold                           *)
(***************************************************************************)
\* calls of scrapeWebContent and gatherInformation on the url, and the
\* number of times the clock is put forward between them
MaxAgedCalls == 3
MaxAdvances == 3

\* the seconds the clock is put forward by
Advances == {1, CACHE_DURATION - 1, CACHE_DURATION}

\* clock: seconds since the start; scrapeKey, gatherKey: what the store
\* holds under the key of scrapeWebContent and under the key of
\* gatherInformation for the url, with the time the content was fetched and
\* the time the key expires; served: the results served from a cache
ZeroAged ==
    [ clock |-> 0, calls |-> 0, advances |-> 0, scrapeKey |-> <<>>, gatherKey |-> <<>>,
      served |-> <<>>, returned |-> <<>> ]

agedRest ==
    UNCHANGED <<poolVars, envVars, pc, sweepVars, gbVars, scrVars, cleanup, gather, chat,
                roundTrip, utilVars, post, handle>>

\* redis.get(key): the value, or nothing once the key has expired
Live(entry, clock) ==
    IF entry # <<>> /\ clock < entry[1].expiresAt THEN entry ELSE <<>>

\* a store that keeps the expiry of the entry the content came from
SetExInherited(content, clock) ==
    <<[ fetchedAt |-> content.fetchedAt,
        expiresAt |-> content.fetchedAt + CACHE_DURATION ]>>

\* redis.set(key, JSON.stringify(content), { ex: CACHE_DURATION })
SetEx(content, clock) ==
    <<[ fetchedAt |-> content.fetchedAt, expiresAt |-> clock + CACHE_DURATION ]>>

\* scrapeWebContent(url) on the state a: the cached object of its own key,
\* or the outcome of a fetch made now, a success being stored
ScrapeWebContent(a, success, storeFails) ==
    LET cachedContent == Live(a.scrapeKey, a.clock) IN
    IF cachedContent # <<>>
    THEN [ a EXCEPT
             !.served = Append(@, [by |-> "scrapeWebContent", at |-> a.clock,
                                   fetchedAt |-> cachedContent[1].fetchedAt]),
             !.returned = <<[success |-> TRUE, fetchedAt |-> cachedContent[1].fetchedAt]>> ]
    ELSE LET scraped == [success |-> success, fetchedAt |-> a.clock] IN
         [ a EXCEPT
             !.scrapeKey = IF success /\ ~storeFails THEN SetEx(scraped, a.clock)
                           ELSE cachedContent,
             !.returned = <<scraped>> ]

\* one iteration of gatherInformation's loop on the state a
GatherIteration(a, success, storeFails, gatherStoreFails) ==
    LET cachedResult == Live(a.gatherKey, a.clock) IN
    IF cachedResult # <<>>
    THEN [ a EXCEPT
             !.served = Append(@, [by |-> "gatherInformation", at |-> a.clock,
                                   fetchedAt |-> cachedResult[1].fetchedAt]),
             !.returned = <<[success |-> TRUE, fetchedAt |-> cachedResult[1].fetchedAt]>> ]
    ELSE LET scraped == ScrapeWebContent(a, success, storeFails)
             scrapingResult == scraped.returned[1]
         IN  [ scraped EXCEPT
                 !.gatherKey = IF scrapingResult.success /\ ~gatherStoreFails
                               THEN SetEx(scrapingResult, a.clock)
                               ELSE cachedResult ]

\* a direct call of scrapeWebContent(url)
AgedScrape ==
    /\ aged.calls < MaxAgedCalls
    /\ \E success, storeFails \in BOOLEAN :
          aged' = [ScrapeWebContent(aged, success, storeFails) EXCEPT !.calls = @ + 1]
    /\ agedRest

\* a call of gatherInformation(query, conversationId, [url])
AgedGather ==
    /\ aged.calls < MaxAgedCalls
    /\ \E success, storeFails, gatherStoreFails \in BOOLEAN :
          aged' = [GatherIteration(aged, success, storeFails, gatherStoreFails)
                      EXCEPT !.calls = @ + 1]
    /\ agedRest

\* time passes between two calls
Advance(d) ==
    /\ aged.advances < MaxAdvances
    /\ aged' = [aged EXCEPT !.clock = @ + d, !.advances = @ + 1]
    /\ agedRest

InitRest ==
    /\ closed = {}
    /\ now = 1
    /\ pc = [p \in Procs |-> "idle"]
    /\ swIdx = [p \in Procs |-> 0]
    /\ swTarget = [p \in Procs |-> NoBrowser]
    /\ swBad = [p \in Procs |-> <<>>]
    /\ swRem = [p \in Procs |-> <<>>]
    /\ swFailed = [p \in Procs |-> {}]
    /\ probedOk = [p \in Procs |-> {}]
    /\ gbRet = [p \in Procs |-> NoBrowser]
    /\ gbHow = [p \in Procs |-> "none"]
    /\ nSweeps = 0
    /\ nCrash = 0
    /\ store = [k \in Keys |-> <<>>]
    /\ url = [p \in Procs |-> "u_empty"]
    /\ metrics = [p \in Procs |-> <<>>]
    /\ pending = [p \in Procs |-> <<>>]
    /\ dynOut = [p \in Procs |-> <<>>]
    /\ page = [p \in Procs |-> "none"]
    /\ result = [p \in Procs |-> <<>>]
    /\ thrown = [p \in Procs |-> <<>>]
    /\ trace = [p \in Procs |-> ZeroTrace]
    /\ cleanup = ZeroCleanup
    /\ post = ZeroPost
    /\ handle = ZeroHandle
    /\ aged = ZeroAged
    /\ gather = ZeroGather
    /\ roundTrip = ZeroRoundTrip
    /\ cacheCall = <<>>
    /\ validated = <<>>
    /\ gate = <<>>
    /\ processed = <<>>
    /\ retry = ZeroRetry
    /\ analysis = ZeroAnalysis

InitPool ==
    /\ \E k \in 0..MAX_WORKERS :
          /\ browsers = PoolOf(k)
          /\ healthy = 1..k
          /\ launched = 1..k
    /\ chat = ZeroChat
    /\ InitRest

NextPool ==
    \/ TimerSweep
    \/ TimerDone
    \/ \E p \in Procs : SweepProbe(p)
    \/ \E p \in Procs : SweepSplice(p)
    \/ \E p \in Calls : CallerGetBrowser(p)
    \/ \E p \in Calls : GbDecideLaunch(p)
    \/ \E p \in Calls : GbReuse(p)
    \/ \E p \in Calls : GbLaunched(p)
    \/ \E p \in Calls : GbLaunchFailed(p)
    \/ \E p \in Calls : CallerReturn(p)
    \/ Tick

SpecPool == InitPool /\ [][NextPool]_vars

(***************************************************************************)
(* Concurrent scrapeWebContent calls over the pool and the store.  The     *)
(* interval sweep acts on the pool alone and is part of SpecPool.           *)
(***************************************************************************)
Init == InitPool

Next ==
    \/ \E p \in Calls, u \in UrlNames : ScrapeStart(p, u)
    \/ \E p \in Calls : CacheGet(p)
    \/ \E p \in Calls : StaticStage(p)
    \/ \E p \in Calls : CacheSet(p)
    \/ \E p \in Calls : ScrapeGotBrowser(p)
    \/ \E p \in Calls : PpOpened(p)
    \/ \E p \in Calls : PpWork(p)
    \/ \E p \in Calls : PpClosed(p)
    \/ \E p \in Calls : SweepProbe(p)
    \/ \E p \in Calls : SweepSplice(p)
    \/ \E p \in Calls : GbDecideLaunch(p)
    \/ \E p \in Calls : GbReuse(p)
    \/ \E p \in Calls : GbLaunched(p)
    \/ \E p \in Calls : GbLaunchFailed(p)
    \/ \E k \in Keys : Expire(k)
    \/ Tick

Spec == Init /\ [][Next]_vars

(***************************************************************************)
(* Shutdown: cleanup calls over a pool the interval sweep is working on    *)
(***************************************************************************)
NextShutdown ==
    \/ TimerSweep
    \/ TimerDone
    \/ SweepProbe(Timer)
    \/ SweepSplice(Timer)
    \/ \E c \in Cleanups : CleanupStart(c)
    \/ \E c \in Cleanups : CleanupResume(c)
    \/ Tick

SpecShutdown == InitPool /\ [][NextShutdown]_vars

(***************************************************************************)
(* A gatherInformation call, its scrapeWebContent calls and the store      *)
(***************************************************************************)
NextGather ==
    \/ \E arg \in UrlArgs : GatherStart(arg)
    \/ GatherRead
    \/ GatherScraped
    \/ GatherWritten
    \/ \E p \in Calls : CacheGet(p)
    \/ \E p \in Calls : StaticStage(p)
    \/ \E p \in Calls : CacheSet(p)
    \/ \E p \in Calls : ScrapeGotBrowser(p)
    \/ \E p \in Calls : PpOpened(p)
    \/ \E p \in Calls : PpWork(p)
    \/ \E p \in Calls : PpClosed(p)
    \/ \E p \in Calls : SweepProbe(p)
    \/ \E p \in Calls : SweepSplice(p)
    \/ \E p \in Calls : GbDecideLaunch(p)
    \/ \E p \in Calls : GbReuse(p)
    \/ \E p \in Calls : GbLaunched(p)
    \/ \E p \in Calls : GbLaunchFailed(p)
    \/ \E k \in Keys : Expire(k)

SpecGather == InitPool /\ [][NextGather]_vars

(***************************************************************************)
(* POST requests and history reads on one conversation                     *)
(***************************************************************************)
InitChat ==
    /\ browsers = <<>>
    /\ healthy = {}
    /\ launched = {}
    /\ \E n \in HistoryLengths, bad \in 0..2 :
          chat = [ZeroChat EXCEPT !.history = HistoryOf(n, bad), !.calls = n]
    /\ InitRest

NextChat ==
    \/ \E r \in Requests : PostStart(r)
    \/ \E r \in Requests : PostHistory(r)
    \/ \E r \in Requests : PostAnswered(r)
    \/ \E r \in Requests : PostPushed(r)
    \/ \E r \in Requests : PostTrimmed(r)
    \/ ReadHistory

SpecChat == InitChat /\ [][NextChat]_vars

(***************************************************************************)
(* A cache round trip on a working store                                   *)
(***************************************************************************)
NextRoundTrip ==
    \/ RoundTripSet
    \/ RoundTripWritten
    \/ RoundTripRead
    \/ Tick

SpecRoundTrip == InitPool /\ [][NextRoundTrip]_vars

(***************************************************************************)
(* Direct calls of the cache helpers on a store shared with other clients  *)
(***************************************************************************)
NextCache ==
    \/ DirectSet
    \/ DirectGet
    \/ \E k \in DirectKeys : ForeignWrite(k)

InitCache ==
    /\ browsers = <<>>
    /\ healthy = {}
    /\ launched = {}
    /\ chat = ZeroChat
    /\ InitRest

SpecCache == InitCache /\ [][NextCache]_vars

(***************************************************************************)
(* One POST request                                                        *)
(***************************************************************************)
NextPost ==
    \/ ReqArrives
    \/ ReqParsed
    \/ ReqHistory
    \/ ReqAnalyzed
    \/ ReqSearched
    \/ ReqGathered
    \/ ReqAnswered
    \/ ReqPushed
    \/ ReqTrimmed

(***************************************************************************)
(* Calls on one url over the time the two caches keep it                   *)
(***************************************************************************)
NextAged ==
    \/ AgedScrape
    \/ AgedGather
    \/ \E d \in Advances : Advance(d)

SpecAged == InitCache /\ [][NextAged]_vars

SpecPost == InitCache /\ [][NextPost]_vars

(***************************************************************************)
(* One handleQuery call                                                    *)
(***************************************************************************)
NextHandle ==
    \/ HandleQuery
    \/ HandleAnalyzed
    \/ HandleGatheredUrls
    \/ HandleSearched
    \/ HandleGatheredSearch

SpecHandle == InitCache /\ [][NextHandle]_vars

(***************************************************************************)
(* A call of validateScrapingResults                                       *)
(***************************************************************************)
NextValidate == Validate

SpecValidate == InitCache /\ [][NextValidate]_vars

(***************************************************************************)
(* A call of isContentMeaningful                                           *)
(***************************************************************************)
NextGate == Gate

SpecGate == InitCache /\ [][NextGate]_vars

(***************************************************************************)
(* A call of processContentForAI                                           *)
(***************************************************************************)
NextProcess == Process

SpecProcess == InitCache /\ [][NextProcess]_vars

(***************************************************************************)
(* A call of withRetry; the promise of the operation settles and the timer *)
(* of a backoff fires                                                      *)
(***************************************************************************)
NextRetry ==
    \/ \E maxRetries \in MaxRetriesArgs, delay \in DelayArgs :
          WithRetryStart(maxRetries, delay)
    \/ \E outcome \in Outcomes : OperationSettled(outcome)
    \/ BackoffElapsed

SpecRetry == InitCache /\ [][NextRetry]_vars

SpecRetryFair == SpecRetry /\ WF_vars(NextRetry)

(***************************************************************************)
(* A call of analyzeQueryIntent                                            *)
(***************************************************************************)
NextAnalysis ==
    \/ \E query \in Queries, chatHistory \in Histories : AnalyzeStart(query, chatHistory)
    \/ GenerateContent
    \/ \E outcome \in ModelOutcomes : ModelSettled(outcome)

SpecAnalysis == InitCache /\ [][NextAnalysis]_vars

(***************************************************************************)
(* Vocabulary of the properties                                            *)
(***************************************************************************)
\* the ScrapingResult a finished call returned
Returned(p) == result[p][1]

\* the characters of each text, and those of a result's content
Texts == [t \in TextNames |-> TextOf(t)]

ContentOf(r) == Texts[r.content]

Finished(p) == pc[p] = "done"

\* the call found its entry and returned it
ServedFromCache(p) == Finished(p) /\ trace[p].readOut = "hit"

\* the call went on to scrape: the read found nothing or the store failed
CacheMissed(p) == Finished(p) /\ trace[p].readOut \in {"miss", "error"}

\* the object stored under the key when the call read the cache
EntryAtRead(p) == ParseJson(trace[p].seen[1])

NoScrapeWork(tr) ==
    /\ tr.fetches = 0 /\ tr.extracts = 0
    /\ tr.dynamics = 0 /\ tr.acquires = 0 /\ tr.pages = 0
    /\ tr.writes = <<>>

SamePayload(a, b) ==
    \A k \in {"url", "content", "title", "success", "timestamp"} : a[k] = b[k]

StaticPassed(p) ==
    /\ trace[p].gates # <<>>
    /\ trace[p].gates[1].stage = "cheerio"
    /\ trace[p].gates[1].ok

StaticFailed(p) ==
    /\ trace[p].gates # <<>>
    /\ trace[p].gates[1].stage = "cheerio"
    /\ ~trace[p].gates[1].ok

(***************************************************************************)
(* C1: scrapeWebContent never raises.  Whatever the url and whichever step *)
(* fails, a call that ends has returned a result, and when a step threw    *)
(* the result has success false, empty content and the thrown message as   *)
(* its error.                                                              *)
(***************************************************************************)
C1_NeverRaises ==
    \A p \in Calls :
        /\ pc[p] # "raised"
        /\ Finished(p) =>
             /\ result[p] # <<>>
             /\ {"content", "title", "success", "url", "timestamp"}
                    \subseteq DOMAIN Returned(p)
             /\ thrown[p] # <<>> =>
                  /\ Returned(p).success = FALSE
                  /\ ContentOf(Returned(p)) = <<>>
                  /\ Returned(p).error = thrown[p][1]

\* a call whose renderer launch failed has returned the launch failure
C1_Witness ==
    \E p \in Calls :
        /\ Finished(p)
        /\ thrown[p] = << <<"Failed to launch browser: ">> \o LaunchError >>
        /\ Returned(p).error = <<"Failed to launch browser: ">> \o LaunchError

(***************************************************************************)
(* C2: under any interleaving of getBrowser calls the pool never holds,    *)
(* and never has launched and not closed, more than MAX_WORKERS sessions.  *)
(***************************************************************************)
LiveSessions == launched \ closed

C2_PoolWithinCap ==
    /\ Len(browsers) <= MAX_WORKERS
    /\ Cardinality(LiveSessions) <= MAX_WORKERS

(***************************************************************************)
(* C3 as stated: when the key's entry is in the cache at the time the call *)
(* reads it, the call returns the cached payload and does no fetch, no     *)
(* extraction, no acquire and no cache write.                              *)
(***************************************************************************)
C3_PresentEntryReturned ==
    \A p \in Calls :
        (Finished(p) /\ trace[p].seen # <<>>) =>
            /\ SamePayload(Returned(p), EntryAtRead(p))
            /\ NoScrapeWork(trace[p])

(***************************************************************************)
(* C3: when the key's entry is in the cache at the time the call reads it  *)
(* and the store answers the read, the call returns the cached payload     *)
(* (same url, content, title, success, timestamp) and does no fetch, no    *)
(* extraction, no acquire and no cache write.                              *)
(***************************************************************************)
C3_ReadEntryReturned ==
    \A p \in Calls :
        (Finished(p) /\ trace[p].seen # <<>> /\ trace[p].readOut # "error") =>
            /\ SamePayload(Returned(p), EntryAtRead(p))
            /\ NoScrapeWork(trace[p])
            /\ trace[p].reads = 1

\* a call returned an entry that was stored by a rendering at an earlier time
C3_Witness ==
    \E p \in Calls :
        /\ ServedFromCache(p)
        /\ Returned(p).timestamp < now
        /\ Returned(p).content = "t_other"

Repeats(p, q) ==
    /\ Finished(p) /\ Finished(q)
    /\ q \in trace[p].after
    /\ url[p] = url[q]
    /\ Returned(q).success
    /\ trace[q].writes # <<>>
    /\ trace[q].writes[1].ok
    /\ trace[p].seen = <<Stringify(Returned(q))>>

SameOutcomeFromCache(p, q) ==
    /\ Returned(p).content = Returned(q).content
    /\ Returned(p).success = Returned(q).success
    /\ trace[p].readOut = "hit"
    /\ Returned(p).metrics.method = "cache"

(***************************************************************************)
(* C5 as stated: a second call on a url whose first call succeeded and     *)
(* populated the cache returns, before expiry, the same content and        *)
(* success, served from the cache.                                         *)
(***************************************************************************)
C5_SecondCallSame ==
    \A p, q \in Calls : Repeats(p, q) => SameOutcomeFromCache(p, q)

(***************************************************************************)
(* C5: a second call on a url whose first call succeeded and populated the *)
(* cache returns, before expiry and when the store answers its read, the   *)
(* same content and success, served from the cache.                        *)
(***************************************************************************)
C5_SecondReadSame ==
    \A p, q \in Calls :
        (Repeats(p, q) /\ trace[p].readOut # "error") => SameOutcomeFromCache(p, q)

\* a second call returned from the cache what the first call had scraped
C5_Witness ==
    \E p, q \in Calls :
        /\ Repeats(p, q)
        /\ trace[p].readOut = "hit"
        /\ CacheMissed(q)
        /\ Returned(p).content = "t_good"

(***************************************************************************)
(* C6: a result that was not served from the cache has success true if and *)
(* only if its content is non-empty and the gate accepted that content at  *)
(* the stage that produced the result.                                     *)
(***************************************************************************)
PassedGateAtProducingStage(p) ==
    LET gs == trace[p].gates IN
    /\ gs # <<>>
    /\ gs[Len(gs)].ok
    /\ gs[Len(gs)].text = Returned(p).content
    /\ "scrapeMethod" \in DOMAIN Returned(p)
    /\ gs[Len(gs)].stage = Returned(p).scrapeMethod
    /\ IsContentMeaningful(Returned(p).content)

C6_SuccessIffGate ==
    \A p \in Calls :
        (Finished(p) /\ ~ServedFromCache(p)) =>
            (Returned(p).success <=>
                (ContentOf(Returned(p)) # <<>> /\ PassedGateAtProducingStage(p)))

\* a rendering produced a successful result after the static text was refused
C6_Witness ==
    \E p \in Calls :
        /\ Finished(p) /\ ~ServedFromCache(p)
        /\ Returned(p).success
        /\ Returned(p).scrapeMethod = "puppeteer"
        /\ Len(trace[p].gates) = 2

(***************************************************************************)
(* C7 and its statement share their conclusion on the returned object and  *)
(* on the dynamic strategy.                                                *)
(***************************************************************************)
StaticSuccess(p) ==
    /\ Returned(p).success
    /\ Returned(p).scrapeMethod = "cheerio"
    /\ "contentStats" \in DOMAIN Returned(p)
    /\ Returned(p).contentStats = ContentStats(Returned(p).content)
    /\ trace[p].dynamics = 0 /\ trace[p].acquires = 0 /\ trace[p].pages = 0

(***************************************************************************)
(* C7 as stated: on a miss where the static text passes the gate the call  *)
(* returns success with scrapeMethod `cheerio` and contentStats, the       *)
(* result is in the cache under the url's key when the call returns, and   *)
(* no session is acquired and no page opened.                              *)
(***************************************************************************)
C7_StaticPassWritten ==
    \A p \in Calls :
        (CacheMissed(p) /\ StaticPassed(p)) =>
            /\ StaticSuccess(p)
            /\ trace[p].writes =
                 <<[key |-> ScrapeKey(url[p]), value |-> Returned(p), ok |-> TRUE]>>

(***************************************************************************)
(* C7: on a miss where the static text passes the gate the call returns    *)
(* success with scrapeMethod `cheerio` and contentStats, the write of the  *)
(* result under the url's key has been asked of the store and awaited once *)
(* before the call returns (a write the store refuses is dropped), and no  *)
(* session is acquired and no page opened.                                 *)
(***************************************************************************)
C7_StaticPassWriteAwaited ==
    \A p \in Calls :
        (CacheMissed(p) /\ StaticPassed(p)) =>
            /\ StaticSuccess(p)
            /\ Len(trace[p].writes) = 1
            /\ trace[p].writes[1].key = ScrapeKey(url[p])
            /\ trace[p].writes[1].value = Returned(p)

\* a static success was returned and its write was taken by the store
C7_Witness ==
    \E p \in Calls :
        /\ CacheMissed(p) /\ StaticPassed(p)
        /\ Returned(p).contentStats.wordCount > 0
        /\ trace[p].writes # <<>>
        /\ trace[p].writes[1].ok

(***************************************************************************)
(* C8: on a miss where the static text fails the gate the dynamic strategy *)
(* is attempted exactly once, after the static one; when its text fails    *)
(* the gate too the call returns success false, error "Content validation  *)
(* failed" and empty content, and has asked for no cache write.            *)
(***************************************************************************)
C8_DynamicOnceThenFail ==
    \A p \in Calls :
        /\ trace[p].dynamics <= 1
        /\ trace[p].dynamics = 1 => (StaticFailed(p) /\ trace[p].fetches = 1)
        /\ (CacheMissed(p) /\ StaticFailed(p)) =>
             /\ trace[p].dynamics = 1
             /\ trace[p].acquires = 1
             /\ Len(trace[p].gates) <= 2
             /\ Len(trace[p].gates) = 2 =>
                  /\ trace[p].gates[2].stage = "puppeteer"
                  /\ ~trace[p].gates[2].ok =>
                       /\ Returned(p).success = FALSE
                       /\ Returned(p).error = <<"Content validation failed">>
                       /\ ContentOf(Returned(p)) = <<>>
                       /\ trace[p].writes = <<>>

\* both strategies yielded a text the gate refused
C8_Witness ==
    \E p \in Calls :
        /\ CacheMissed(p) /\ StaticFailed(p)
        /\ Len(trace[p].gates) = 2
        /\ ~trace[p].gates[2].ok
        /\ Returned(p).error = <<"Content validation failed">>

(***************************************************************************)
(* C9: a call with a url that is empty, no string or without a leading     *)
(* http:// or https:// returns at once the invalid-url failure, having     *)
(* read no cache, fetched nothing, rendered nothing and written nothing.   *)
(***************************************************************************)
WellFormedUrl(u) ==
    /\ UrlOf(u).type = "string"
    /\ Len(UrlOf(u).chars) > 0
    /\ HasHttpScheme(u)

C9_InvalidUrlRejected ==
    \A p \in Calls :
        (pc[p] # "idle" /\ ~WellFormedUrl(url[p])) =>
            /\ Finished(p)
            /\ Returned(p).success = FALSE
            /\ Returned(p).error = <<"Invalid URL provided">>
            /\ trace[p].reads = 0
            /\ NoScrapeWork(trace[p])

(***************************************************************************)
(* C10: a session whose health probe failed is closed and removed from the *)
(* pool by the end of that sweep, and every pooled session that getBrowser *)
(* hands out passed the probe of the sweep of that same call.              *)
(***************************************************************************)
C10_SweepBeforeChoose ==
    /\ \A p \in Procs :
          pc[p] = "sw_ret" =>
              \A b \in swFailed[p] : b \in closed /\ b \notin PoolIds(browsers)
    /\ \A p \in Calls :
          (pc[p] = "gb_ret" /\ gbHow[p] = "reused") => gbRet[p] \in probedOk[p]

C12_ReuseStep ==
    \A p \in Calls :
        ( /\ pc[p] = "sw_ret" /\ pc'[p] # "sw_ret"
          /\ Len(browsers) = MAX_WORKERS
          /\ PoolIds(browsers) \subseteq healthy ) =>
            /\ pc'[p] = "gb_ret"
            /\ launched' = launched
            /\ Len(browsers') = Len(browsers)
            /\ \E i \in 1..Len(browsers) :
                 /\ gbRet'[p] = browsers[i].browser
                 /\ \A j \in 1..Len(browsers) :
                      browsers[i].lastUsed <= browsers[j].lastUsed
                 /\ browsers'[i] = [browser |-> browsers[i].browser, lastUsed |-> now]
                 /\ \A j \in 1..Len(browsers) : j # i => browsers'[j] = browsers[j]

C12_ReuseLeastRecentlyUsed == [][C12_ReuseStep]_vars

\* a full healthy pool has handed out a session that others had outlived
C12_Witness ==
    \E p \in Calls :
        /\ pc[p] = "gb_ret" /\ gbHow[p] = "reused"
        /\ Len(browsers) = MAX_WORKERS
        /\ launched = 1..MAX_WORKERS
        /\ \E i, j \in 1..Len(browsers) :
             /\ browsers[i].browser = gbRet[p]
             /\ browsers[i].lastUsed = now
             /\ 0 < browsers[j].lastUsed /\ browsers[j].lastUsed < now

(***************************************************************************)
(* C14: when the launch of a session throws, getBrowser throws a           *)
(* ScrapingError with url "browser-pool" and method "puppeteer", the       *)
(* session list is as it was, and scrapeWebContent returns a failure whose *)
(* error is the message of that ScrapingError.                             *)
(***************************************************************************)
C14_Typed ==
    \A p \in Calls :
        gbHow[p] = "threw" =>
            /\ GbThrown(gbHow[p]) # <<>>
            /\ GbThrown(gbHow[p])[1].name = "ScrapingError"
            /\ GbThrown(gbHow[p])[1].url = "browser-pool"
            /\ GbThrown(gbHow[p])[1].method = "puppeteer"

C14_Step ==
    \A p \in Calls :
        /\ (pc[p] = "gb_launch" /\ gbHow'[p] = "threw") =>
              (browsers' = browsers /\ launched' = launched /\ pc'[p] = "gb_ret")
        /\ (pc[p] = "gb_ret" /\ gbHow[p] = "threw" /\ pc'[p] # "gb_ret") =>
              /\ pc'[p] = "done"
              /\ result'[p] # <<>>
              /\ result'[p][1].success = FALSE
              /\ result'[p][1].error = <<"Failed to launch browser: ">> \o LaunchError
              /\ thrown'[p] = <<result'[p][1].error>>

C14_LaunchFailureSurfaces == []C14_Typed /\ [][C14_Step]_vars

\* a failed launch has been reported by the orchestrator, the pool below cap
C14_Witness ==
    \E p \in Calls :
        /\ Finished(p)
        /\ Returned(p).success = FALSE
        /\ Returned(p).error = LaunchFailure(LaunchError).message
        /\ trace[p].acquires = 1 /\ trace[p].pages = 0

(***************************************************************************)
(* C16 compares two finished calls on one url that met the same pages and  *)
(* the same failures of network, extractor, pool and page: one whose cache *)
(* read or cache write failed in the store, one that ran against a working *)
(* store holding no entry.                                                 *)
(***************************************************************************)
StoreFailedFor(p) ==
    \/ trace[p].readOut = "error"
    \/ \E i \in 1..Len(trace[p].writes) : ~trace[p].writes[i].ok

WorkingEmptyRun(q) ==
    /\ trace[q].readOut = "miss"
    /\ trace[q].seen = <<>>
    /\ \A i \in 1..Len(trace[q].writes) : trace[q].writes[i].ok

\* the failure a call met outside the store
OutsideFailure(p) == IF thrown[p] = <<StoreError>> THEN <<>> ELSE thrown[p]

SameConditions(p, q) ==
    /\ Finished(p) /\ Finished(q)
    /\ url[p] = url[q]
    /\ trace[p].gates = trace[q].gates
    /\ OutsideFailure(p) = OutsideFailure(q)

MethodOf(r) == IF "scrapeMethod" \in DOMAIN r THEN r.scrapeMethod ELSE "none"

(***************************************************************************)
(* C16: a store failure on the cache read or on the write-through does not *)
(* change what scrapeWebContent returns (same success, content and method  *)
(* as against a working, empty cache), and setCachedContent never throws.  *)
(***************************************************************************)
C16_BestEffortCache ==
    /\ \A p \in Calls : thrown[p] # <<StoreError>>
    /\ \A p, q \in Calls :
         (SameConditions(p, q) /\ StoreFailedFor(p) /\ WorkingEmptyRun(q)) =>
             /\ Returned(p).success = Returned(q).success
             /\ Returned(p).content = Returned(q).content
             /\ MethodOf(Returned(p)) = MethodOf(Returned(q))

\* a call whose read failed on a present entry and whose write failed
\* returned the success of a call that had found the cache empty
C16_Witness ==
    \E p, q \in Calls :
        /\ SameConditions(p, q) /\ StoreFailedFor(p) /\ WorkingEmptyRun(q)
        /\ trace[p].readOut = "error" /\ trace[p].seen # <<>>
        /\ trace[p].writes # <<>> /\ ~trace[p].writes[1].ok
        /\ Returned(p).success

(***************************************************************************)
(* C13  cleanup cancels the health-check timer and closes every pooled     *)
(* session, leaving the pool empty; a second cleanup call changes nothing, *)
(* closes nothing twice and does not fail.                                 *)
(* As a state property: once a cleanup call has started the interval is    *)
(* cancelled; no cleanup call leaves with an error; a call that returned   *)
(* left an empty pool; cleanup calls close() on no session more than once. *)
(***************************************************************************)
CleanupStarted == \E c \in Cleanups : cleanup.pc[c] # "idle"

C13_CleanupIdempotent ==
    /\ CleanupStarted => ~cleanup.timerOn
    /\ \A c \in Cleanups :
          /\ cleanup.pc[c] # "threw"
          /\ cleanup.pc[c] = "done" => cleanup.left[c] = 0
    /\ \A b \in BrowserIds : cleanup.closeCalls[b] <= 1

(***************************************************************************)
(* C15  After any sequence of scrapeWebContent and gatherInformation       *)
(* calls, every ScrapingResult stored in the cache, under the              *)
(* orchestrator's key or under the gatherer's key, has success = true: a   *)
(* failure result is never written to either namespace.                    *)
(***************************************************************************)
StoredUnder(k) == ParseJson(store[k][1])

C15_OnlySuccessCached ==
    \A k \in Keys : store[k] # <<>> => StoredUnder(k).success = TRUE

\* a gatherInformation call has returned a failure it did not store next to
\* a success it stored, and the orchestrator's namespace holds an entry too
C15_Witness ==
    /\ gather.pc = "done"
    /\ \E i, j \in 1..Len(gather.results) :
          /\ ~gather.results[i].success
          /\ gather.results[j].success
          /\ store[GatherKey(gather.urls[j])] # <<>>
          /\ store[GatherKey(gather.urls[i])] = <<>>
    /\ \E k \in ScrapeKeys : store[k] # <<>>

(***************************************************************************)
(* C17  A store failure while appending to chat history (the push or the   *)
(* trim failing) is logged and swallowed: storeChat does not throw, and    *)
(* the request that produced the answer still returns that answer.         *)
(***************************************************************************)
Answered(r) == chat.req[r].pc = "done" /\ chat.req[r].aiResponse # <<>>

C17_StoreFailureSwallowed ==
    \A r \in Requests :
       /\ chat.req[r].storeChat # "threw"
       /\ Answered(r) =>
             /\ chat.req[r].response[1].status = 200
             /\ chat.req[r].response[1].aiResponse = chat.req[r].aiResponse[1]

(***************************************************************************)
(* C18  In every state where no storeChat call is in progress the history  *)
(* list holds at most 50 entries, most recent first, for any interleaving  *)
(* of storeChat calls; when the cap is exceeded the oldest entries are     *)
(* dropped, and existing entries are never modified.                       *)
(* C18_CappedAtFifty is the bound as stated.  C18_CappedUnlessTrimFailed   *)
(* is what holds: with no storeChat call in progress the list holds at     *)
(* most 50 entries plus one for every ltrim that failed since the last     *)
(* ltrim that succeeded; every change of the list either puts one entry in *)
(* front of it, leaving the others as they are, or cuts it down to its     *)
(* first 50 entries, so that the list is in the order in which the store   *)
(* applied the pushes, latest first.                                       *)
(***************************************************************************)
HistoryCap == TRIM_STOP + 1

StoreChatInProgress == \E r \in Requests : chat.req[r].storeChat = "running"

\* the number of the storeChat call that pushed the element at position i
PushOf(i) == MemberOf(chat.history[i], "userMessage")[2]

C18_CappedAtFifty ==
    ~StoreChatInProgress => Len(chat.history) <= HistoryCap

C18_Bounded ==
    ~StoreChatInProgress => Len(chat.history) <= HistoryCap + chat.untrimmed

C18_Step ==
    chat.history' # chat.history =>
       \/ /\ Len(chat.history') = Len(chat.history) + 1
          /\ Tail(chat.history') = chat.history
       \/ /\ Len(chat.history) > HistoryCap
          /\ chat.history' = SubSeq(chat.history, 1, HistoryCap)

C18_CappedUnlessTrimFailed == []C18_Bounded /\ [][C18_Step]_vars

\* a storeChat call on a full list has returned: its entry is in front and
\* the oldest entry is gone, the second oldest is now the last one
C18_Witness ==
    /\ ~StoreChatInProgress
    /\ \E r \in Requests : chat.req[r].storeChat = "returned"
    /\ Len(chat.history) = HistoryCap
    /\ PushOf(1) > HistoryCap
    /\ PushOf(HistoryCap) = PushOf(1) - HistoryCap + 1

(***************************************************************************)
(* C19  getChatHistory(conversationId, limit) never throws and returns at  *)
(* most `limit` entries (5 by default), the most recently stored ones,     *)
(* most recent first; an entry that fails to parse is skipped while the    *)
(* others are still returned, and a store failure yields the empty list.   *)
(* As a property of the step in which a call settles: the value is the     *)
(* parsed entries among the first `limit` elements of the list, in order.  *)
(***************************************************************************)
FirstOf(list, n) == SubSeq(list, 1, IF n < Len(list) THEN n ELSE Len(list))

ReadSettles == chat.read' # <<>> /\ chat.read' # chat.read

C19_Step ==
    ReadSettles =>
       LET call == chat.read'[1] IN
       /\ Len(call.out) <= call.limit
       /\ call.storeFails => call.out = <<>>
       /\ ~call.storeFails => call.out = ParseEntries(FirstOf(chat.history, call.limit))

C19_AtMostLimit == [][C19_Step]_vars

(***************************************************************************)
(* C20  Cache round trip: for every key and every ScrapingResult r,        *)
(* setCachedContent(key, r) followed immediately by getCachedContent(key), *)
(* with a working store, returns a value with the same url, content and    *)
(* success as r, whether the store hands the value back as serialized text *)
(* or as an already structured object.                                     *)
(***************************************************************************)
C20_RoundTrip ==
    roundTrip.pc = "done" =>
       /\ roundTrip.got # <<>>
       /\ roundTrip.got[1].url = roundTrip.content[1].url
       /\ roundTrip.got[1].content = roundTrip.content[1].content
       /\ roundTrip.got[1].success = roundTrip.content[1].success

\* a successful result came back from a store that handed back its text
C20_Witness ==
    /\ roundTrip.pc = "done"
    /\ roundTrip.handBack = "string"
    /\ roundTrip.content[1].success
    /\ roundTrip.key[1] \in GatherKeys
    /\ roundTrip.got[1].contentStats = roundTrip.content[1].contentStats

(***************************************************************************)
(* C21  getCachedContent never throws: it returns the stored value when    *)
(* the store returns a structured object or well-formed serialized text,   *)
(* and returns null when the key is absent, when the serialized text is    *)
(* malformed, or when the store call fails.                                *)
(***************************************************************************)
GetCalls == {i \in 1..Len(cacheCall) : cacheCall[i].fn = "get"}

SetCalls == {i \in 1..Len(cacheCall) : cacheCall[i].fn = "set"}

WellFormedEntry(entry) == entry # <<>> /\ IsJsonText(entry[1])

C21_GetNeverThrows ==
    \A i \in GetCalls :
       LET call == cacheCall[i] IN
       /\ call.settled = "resolved"
       /\ IF call.handBack # "error" /\ WellFormedEntry(call.before)
          THEN call.out = <<ParseJson(call.before[1])>>
          ELSE call.out = <<>>

\* an entry written by setCachedContent was replaced by a text that is no
\* JSON, and the read of it gave null
C21_Witness ==
    \E i \in SetCalls, j \in GetCalls :
       /\ i < j
       /\ cacheCall[i].command # <<>>
       /\ ~cacheCall[i].storeFails
       /\ cacheCall[j].key = cacheCall[i].key
       /\ cacheCall[j].handBack = "string"
       /\ cacheCall[j].before = <<Malformed>>
       /\ cacheCall[j].out = <<>>

(***************************************************************************)
(* C22  setCachedContent called with null or undefined content rejects it  *)
(* as a caller error and leaves the store unchanged (no write under the    *)
(* key); every write it does perform carries the fixed expiry of 3600      *)
(* seconds.                                                                *)
(* The rejection is the error 'Cannot cache null or undefined content',    *)
(* which the function raises and hands to its own log.                     *)
(***************************************************************************)
C22_Step ==
    LET call == cacheCall'[Len(cacheCall')] IN
    (Len(cacheCall') > Len(cacheCall) /\ call.fn = "set" /\ IsNullish(call.content))
       => store' = store

C22_Now ==
    \A i \in SetCalls :
       LET call == cacheCall[i] IN
       /\ IsNullish(call.content) =>
             /\ call.command = <<>>
             /\ call.logged = NullContentError
       /\ call.command # <<>> => call.command[1].ex = 3600

Completed ==
    IF gather.pc = "done" THEN 1..Len(gather.urls)
    ELSE IF gather.pc \in {"read", "scrape", "write"} THEN 1..(gather.i - 1)
    ELSE {}

NotThrown ==
    SelectSeq([i \in 1..Len(gather.urls) |-> i],
              LAMBDA i : i \in Completed \ gather.skipped)

C23_InputOrder ==
    /\ Len(gather.results) = Len(NotThrown)
    /\ \A n \in 1..Len(gather.results) :
          gather.results[n].url = gather.urls[NotThrown[n]]

\* two different urls were gathered and both gave a result
C23_Witness ==
    /\ gather.pc = "done"
    /\ Len(gather.urls) = 2
    /\ gather.urls[1] # gather.urls[2]
    /\ Len(gather.results) = 2
    /\ gather.results[1].success
    /\ ~gather.results[2].success

(***************************************************************************)
(* C24  gatherInformation with an empty or missing URL list returns an     *)
(* empty result list and is a no-op: it performs no cache read, no scrape  *)
(* and no cache write.                                                     *)
(***************************************************************************)
CalledWithoutUrls == gather.pc # "idle" /\ (~gather.given \/ Len(gather.urls) = 0)

C24_EmptyIsNoOp ==
    CalledWithoutUrls =>
       /\ gather.pc = "done"
       /\ gather.results = <<>>
       /\ gather.reads = 0 /\ gather.calls = 0 /\ gather.writes = 0
       /\ \A k \in Keys : store[k] = <<>>
       /\ \A p \in Calls : pc[p] = "idle" /\ trace[p] = ZeroTrace

\* the call without a list has returned
C24_Witness == gather.pc = "done" /\ ~gather.given /\ gather.results = <<>>

(***************************************************************************)
(* C25  validateScrapingResults returns, in their original order, exactly  *)
(* those elements of its input that are non-null objects whose content is  *)
(* a string that is non-empty after trimming; every other element (null,   *)
(* non-object, missing or empty content) is dropped, and an input that is  *)
(* not an array yields the empty list.                                     *)
(***************************************************************************)
\* the string has a character that is not whitespace
NonBlank(chars) == \E i \in 1..Len(chars) : chars[i] \notin Whitespace

\* an object (the arrays of the inputs have no content property)
Wanted(v) ==
    /\ v.type = "object"
    /\ "content" \in DOMAIN v.props
    /\ v.props.content.type = "string"
    /\ NonBlank(v.props.content.chars)

\* the positions of the wanted elements, in increasing order
WantedAt(items) == SelectSeq([i \in 1..Len(items) |-> i], LAMBDA i : Wanted(items[i]))

C25_ValidatedExactly ==
    validated # <<>> =>
       LET results == validated[1].results
           out == validated[1].out
       IN IF results.type # "array" THEN out = <<>>
          ELSE /\ Len(out) = Len(WantedAt(results.items))
               /\ \A n \in 1..Len(out) : out[n] = results.items[WantedAt(results.items)[n]]

\* the list of an empty content, "hello world", null and a string gave the
\* "hello world" element alone
C25_Witness ==
    /\ validated # <<>>
    /\ validated[1].results.type = "array"
    /\ validated[1].results.items =
          << ObjectValue([content |-> StringValue(<<>>), success |-> TRUE]),
             ObjectValue([content |-> StringValue(HelloWorld), success |-> TRUE]),
             [type |-> "null"],
             StringValue(<<"n", "o", "t", " ", "a", "n", " ", "o", "b", "j", "e", "c", "t">>) >>
    /\ validated[1].out = <<ObjectValue([content |-> StringValue(HelloWorld), success |-> TRUE])>>

(***************************************************************************)
(* C26  For every text with fewer than 100 words (maximal runs of          *)
(* non-whitespace characters), isContentMeaningful returns false,          *)
(* whatever its sentence count, average word length, surrounding           *)
(* whitespace or phrases.                                                  *)
(***************************************************************************)
\* number of maximal runs of characters that are not whitespace
WordsOf(s) ==
    Cardinality({i \in 1..Len(s) :
                   /\ s[i] \notin Whitespace
                   /\ IF i = 1 THEN TRUE ELSE s[i - 1] \in Whitespace})

C26_FewWordsRejected ==
    gate # <<>> =>
       (WordsOf(TextOfShape(gate[1].shape)) < 100 => ~gate[1].verdict)

(***************************************************************************)
(* C27  For every list of scraping results processContentForAI returns     *)
(* content of length at most 30,000 plus the length of the truncation      *)
(* suffix; the suffix is appended exactly when the sanitized combined text *)
(* exceeds 30,000 characters, and otherwise the sanitized text is returned *)
(* unchanged; wasFiltered is always false.                                 *)
(***************************************************************************)
\* the sanitized combined text of the call
SanitizedCombined ==
    SanitizeContent(Joined([i \in 1..Len(processed[1].scrapingResults) |->
                               Attributed(processed[1].scrapingResults[i])]))

\* s ends with the truncation suffix after k characters
SuffixedAt(s, k) == s = ConcatRuns(Substring(s, k), TruncationSuffix)

C27_LengthCapped ==
    processed # <<>> =>
       LET out == processed[1].out IN
       /\ LengthOf(out.content) <= 30000 + LengthOf(TruncationSuffix)
       /\ IF LengthOf(SanitizedCombined) > 30000
          THEN /\ LengthOf(out.content) = 30000 + LengthOf(TruncationSuffix)
               /\ Substring(out.content, 30000) = Substring(SanitizedCombined, 30000)
               /\ SuffixedAt(out.content, 30000)
          ELSE out.content = SanitizedCombined
       /\ out.wasFiltered = FALSE

\* two results whose sanitized combination was cut at 30,000 characters
C27_Witness ==
    /\ processed # <<>>
    /\ Len(processed[1].scrapingResults) = 2
    /\ LengthOf(SanitizedCombined) > 30000
    /\ LengthOf(processed[1].out.content) = 30034

(***************************************************************************)
(* C28  withRetry does not retry errors that are not rate-limit errors:    *)
(* when the operation fails with any other error, the operation has been   *)
(* invoked exactly once in that withRetry call, no delay is taken, and     *)
(* that error is thrown to the caller.                                     *)
(***************************************************************************)
\* an error whose message holds '429 Too Many Requests'
IsRateLimitError(error) ==
    /\ "message" \in DOMAIN error
    /\ Includes(error.message, RateLimitPhrase)

C28_OtherErrorThrown ==
    (retry.failed # <<>> /\ ~IsRateLimitError(retry.failed[1])) =>
       /\ retry.calls = <<1>>
       /\ retry.waits = <<>>
       /\ retry.pc = "threw"
       /\ retry.out = <<retry.failed[1]>>

(***************************************************************************)
(* C29  withRetry on rate-limit errors always terminates: it invokes the   *)
(* operation at most maxRetries times, waits delay * k after the k-th      *)
(* failed attempt before attempt k+1, returns the first successful result  *)
(* without further attempts, and if every attempt fails throws the error   *)
(* of the last attempt.                                                    *)
(***************************************************************************)
\* every failure so far was a rate-limit error
OnlyRateLimited == \A k \in 1..Len(retry.failed) : IsRateLimitError(retry.failed[k])

C29_Settled == retry.pc \in {"returned", "threw"}

C29_Now ==
    OnlyRateLimited =>
       /\ Len(retry.calls) <= retry.maxRetries
       /\ retry.calls = [k \in 1..Len(retry.calls) |-> k]
       /\ Len(retry.waits) <= Len(retry.failed)
       /\ \A k \in 1..Len(retry.waits) : retry.waits[k] = retry.delay * k
       \* attempt k+1 comes after the k-th wait
       /\ retry.pc = "operation" =>
             /\ Len(retry.failed) = Len(retry.calls) - 1
             /\ Len(retry.waits) = Len(retry.failed)
       /\ retry.pc = "returned" =>
             /\ retry.out = <<"v">>
             /\ Len(retry.failed) = Len(retry.calls) - 1
       /\ retry.pc = "threw" =>
             /\ Len(retry.calls) = retry.maxRetries
             /\ Len(retry.failed) = retry.maxRetries
             /\ retry.out = <<retry.lastError>>
             /\ retry.failed # <<>> => retry.out = <<retry.failed[Len(retry.failed)]>>

\* a call that has returned or thrown does nothing more
C29_Step == C29_Settled => retry' = retry

C29_BackoffTerminates == []C29_Now /\ [][C29_Step]_vars /\ <>C29_Settled

\* three rate-limit failures with waits of 250, 500 and 750, and the error
\* of the third attempt thrown
C29_Witness ==
    /\ retry.pc = "threw"
    /\ retry.maxRetries = 3
    /\ retry.waits = <<250, 500, 750>>
    /\ retry.failed[1] = ErrorOf(RateLimitPhrase)
    /\ retry.failed[3] = ErrorOf(<<"G", ":", " ">> \o RateLimitPhrase \o <<".">>)
    /\ retry.out = <<retry.failed[3]>>

(***************************************************************************)
(* C30  analyzeQueryIntent never propagates a failure of the model: when   *)
(* the model call throws or its output does not match the expected format, *)
(* it returns the degraded analysis (isCasual true, needsSearch false,      *)
(* confidenceScore 0.5) that carries the URLs extracted from the query;    *)
(* when the query itself contains URLs the model is not called at all.     *)
(***************************************************************************)
\* the model call threw, or its text is not one of the seven-item lists
ModelFailed ==
    /\ analysis.outcome # <<>>
    /\ IF analysis.outcome[1].kind = "text"
       THEN analysis.outcome[1].raw \notin {ListAsAsked, ListWithSearch}
       ELSE TRUE

C30_DegradedNotThrown ==
    /\ analysis.pc # "threw"
    /\ ModelFailed =>
          /\ analysis.pc = "returned"
          /\ analysis.out[1].isCasual = TRUE
          /\ analysis.out[1].needsSearch = FALSE
          /\ analysis.out[1].confidenceScore = 5
          /\ analysis.out[1].extractedUrls = ExtractUrls(analysis.query)
    /\ (analysis.pc # "idle" /\ ExtractUrls(analysis.query) # <<>>) =>
          /\ analysis.pc = "returned"
          /\ analysis.prompts = <<>>
          /\ analysis.outcome = <<>>
          /\ analysis.out[1].extractedUrls = ExtractUrls(analysis.query)

\* the model answered with a preamble before the list and the degraded
\* analysis was returned
C30_Witness ==
    /\ analysis.pc = "returned"
    /\ analysis.outcome = <<[kind |-> "text", raw |-> <<"O", "K", ":", "\n">> \o ListAsAsked]>>
    /\ Len(analysis.prompts) = 1
    /\ analysis.out = <<CreateFallbackAnalysis(<<>>)>>

(***************************************************************************)
(* C32  Under any interleaving of health sweeps (the interval's and the    *)
(* one at the start of each getBrowser) with each other and with session   *)
(* creation, a sweep closes and evicts exactly the sessions whose probe    *)
(* failed: no session whose probe succeeded is ever closed or removed, and *)
(* no session whose probe failed stays in the pool after the sweep ends.   *)
(***************************************************************************)
\* the sessions some sweep in progress has found dead
FoundDead == UNION {swFailed[p] : p \in Procs}

\* every session a step closes or takes out of the pool was found dead by
\* a sweep, and a sweep that ends leaves none of the sessions it found dead
\* in the pool
C32_Step ==
    /\ \A b \in (closed' \ closed) \cup (PoolIds(browsers) \ PoolIds(browsers')) :
          b \in FoundDead'
    /\ \A p \in Procs :
          (pc[p] # "sw_ret" /\ pc'[p] = "sw_ret") =>
              swFailed'[p] \cap PoolIds(browsers') = {}

C32_OnlyFailedEvicted == [][C32_Step]_vars

(***************************************************************************)
(* C33  Within one gatherInformation call the number of scrapes in flight  *)
(* at the same time never exceeds the pool's session cap (3): the loop     *)
(* awaits each scrape before it starts the next, so at most one is in      *)
(* flight and at most one renderer session is needed at a time.            *)
(***************************************************************************)
\* the scrapeWebContent calls that have started and not settled
InFlight == {p \in Calls : pc[p] \notin {"idle", "done", "raised"}}

C33_BoundedScrapes ==
    /\ Cardinality(InFlight) <= 1
    /\ Cardinality(InFlight) <= MAX_WORKERS
    /\ Cardinality({p \in InFlight : page[p] = "open"}) <= 1
    /\ Len(browsers) <= MAX_WORKERS

\* two urls were scraped by the dynamic strategy, one after the other
C33_Witness ==
    /\ gather.pc = "done"
    /\ gather.calls = 2
    /\ trace[1].acquires = 1
    /\ trace[2].acquires = 1

(***************************************************************************)
(* C35  For every result returned by scrapeWebContent the attached metrics *)
(* agree with the result: metrics.success equals the result's success,     *)
(* metrics.method names the stage that resolved the request, and           *)
(* puppeteerAttemptTime is set only if the dynamic strategy was reached.   *)
(***************************************************************************)
C35_MetricsAgree ==
    \A p \in Calls :
        (Finished(p) /\ result[p] # <<>>) =>
            LET r == Returned(p) IN
            /\ r.metrics.success = r.success
            /\ r.metrics.method \in {"cache", "cheerio", "puppeteer"}
            /\ trace[p].readOut = "hit" => r.metrics.method = "cache"
            /\ r.success /\ trace[p].readOut # "hit" => r.metrics.method = r.scrapeMethod
            /\ "puppeteerAttemptTime" \in DOMAIN r.metrics => trace[p].dynamics > 0

(***************************************************************************)
(* C36  Every result returned by scrapeWebContent carries an error text    *)
(* exactly when success is false, carries contentStats only when success   *)
(* is true, and every failure result has empty content.                    *)
(***************************************************************************)
C36_ErrorIffFailure ==
    \A p \in Calls :
        (Finished(p) /\ result[p] # <<>>) =>
            LET r == Returned(p) IN
            /\ ("error" \in DOMAIN r) <=> (r.success = FALSE)
            /\ "contentStats" \in DOMAIN r => r.success = TRUE
            /\ r.success = FALSE => TextOf(r.content) = <<>>

\* one call returned a success with its statistics and another returned
\* what its catch clause built
C36_Witness ==
    \E p, q \in Calls :
        /\ Finished(p) /\ Finished(q)
        /\ Returned(p).success /\ "contentStats" \in DOMAIN Returned(p)
        /\ thrown[q] # <<>> /\ "error" \in DOMAIN Returned(q)

(***************************************************************************)
(* C37  If fetching the markup or reading its body throws during the       *)
(* static stage, scrapeWebContent returns a failure carrying that          *)
(* exception's message without attempting the dynamic strategy: no session *)
(* is acquired and nothing is cached; the dynamic strategy is entered only *)
(* after the static text was extracted and rejected by the gate.           *)
(***************************************************************************)
C37_StaticThrowEnds ==
    \A p \in Calls :
        /\ (pc[p] # "idle" /\ thrown[p] \in {<<FetchError>>, <<BodyError>>}) =>
              /\ Finished(p)
              /\ Returned(p).success = FALSE
              /\ <<Returned(p).error>> = thrown[p]
              /\ trace[p].fetches = 1 /\ trace[p].extracts = 0
              /\ trace[p].dynamics = 0 /\ trace[p].acquires = 0 /\ trace[p].pages = 0
              /\ trace[p].writes = <<>>
        /\ (pc[p] # "idle" /\ trace[p].dynamics > 0) =>
              /\ trace[p].extracts = 1
              /\ Len(trace[p].gates) >= 1
              /\ trace[p].gates[1].stage = "cheerio"
              /\ trace[p].gates[1].ok = FALSE

\* one call ended on a body read that threw, another reached the dynamic
\* strategy after its static text was rejected
C37_Witness ==
    \E p, q \in Calls :
        /\ Finished(p) /\ thrown[p] = <<BodyError>>
        /\ trace[q].dynamics = 1 /\ trace[q].pages = 1

(***************************************************************************)
(* C31  A pipeline-level failure does not fail the whole request: if the   *)
(* answer generator throws while the request is processed, the POST        *)
(* handler degrades to responding without external context instead of      *)
(* returning an error response.                                            *)
(***************************************************************************)
\* generateProgressiveResponse was called and gave no answer
GeneratorThrew == post.pc = "responded" /\ post.prompt # <<>> /\ post.aiResponse = <<>>

C31_GeneratorFailureDegrades ==
    GeneratorThrew =>
        /\ post.response[1].status = 200
        /\ post.response[1].success = TRUE

(***************************************************************************)
(* C39  In the POST handler every result handed to processContentForAI has *)
(* success=true and non-empty content, and at most 5 results are handed    *)
(* over: failure results from gatherInformation never reach the content    *)
(* processor or the prompt.                                                *)
(***************************************************************************)
C39_OnlySuccessesProcessed ==
    /\ post.handed # <<>> =>
          /\ Len(post.handed[1]) \in 1..MAX_SCRAPING_RESULTS
          /\ \A i \in 1..Len(post.handed[1]) :
                /\ post.handed[1][i].props.success = TRUE
                /\ Len(post.handed[1][i].props.content.chars) > 0
    /\ (post.prompt # <<>> /\ post.prompt[1].context # <<>>) =>
          /\ post.handed # <<>>
          /\ post.prompt[1].context[2] = ProcessedContent(post.handed[1])

\* gatherInformation returned a failure and more than five successes, and
\* five results were handed over
C39_Witness ==
    /\ post.handed # <<>>
    /\ Len(post.handed[1]) = MAX_SCRAPING_RESULTS
    /\ post.gathered # <<>>
    /\ LET items == post.gathered[1].props.scrapingResults.items IN
       /\ Cardinality({i \in 1..Len(items) : items[i].success}) > MAX_SCRAPING_RESULTS
       /\ \E i \in 1..Len(items) : items[i].success = FALSE

(***************************************************************************)
(* C40  In the POST handler a chat entry is appended to a conversation's   *)
(* history only after the answer for that request has been generated       *)
(* successfully, and exactly one entry per such request: a request whose   *)
(* analysis, gathering or answer generation failed stores no entry.        *)
(***************************************************************************)
Generated == post.aiResponse # <<>>

\* analyzeQueryIntent threw or fell back to its default analysis
AnalysisFailed ==
    \/ post.degraded
    \/ post.body # <<>> /\ post.queryAnalysis = <<>> /\ post.response # <<>>
         /\ post.response[1].status = 500 /\ post.response[1].error = NoMatchMethod

\* gatherInformation was called and no result of it could be used
GatheringFailed == post.gathered # <<>> /\ post.scrapingResults = <<>>

\* the claim as stated
C40_ExactlyOnePerAnswer ==
    post.pc = "responded" =>
        /\ post.pushes > 0 => Generated
        /\ Generated => post.pushes = 1
        /\ (AnalysisFailed \/ GatheringFailed \/ ~Generated) => post.pushes = 0

\* an entry is appended only after the answer was generated, at most one
\* per request; exactly one when lpush was applied, none when the request
\* ended before storeChat or lpush failed; the entry holds the message and
\* the answer of the request
C40_EntryAfterAnswer ==
    /\ post.pushes <= 1
    /\ Len(post.history) = post.pushes
    /\ post.pushes = 1 =>
          /\ Generated
          /\ post.history[1] = [userMessage |-> post.body[1].message,
                                aiResponse |-> post.aiResponse[1]]
    /\ post.pc = "ltrim" => post.pushes = 1
    /\ post.pc = "responded" =>
          /\ post.response[1].status = 200 => post.pushes = 1
          /\ ~Generated => post.pushes = 0
          /\ post.pushes = 0 => post.response[1].status # 200

\* a request whose analysis fell back and one whose gathering gave nothing
\* are answered and store their entry
C40_Witness ==
    /\ post.pc = "responded"
    /\ post.response[1].status = 200
    /\ post.pushes = 1
    /\ post.degraded

(***************************************************************************)
(* C38  In handleQuery, whenever gatherInformation returns at least one    *)
(* result with non-empty content for the user-provided or searched urls,   *)
(* the validated result list is non-empty and the prompt that handleQuery  *)
(* returns contains that content as context.                               *)
(***************************************************************************)
\* some gatherInformation call of the handleQuery call resolved to a list
\* holding a result whose content is not blank
GatheredContent ==
    \E k \in 1..Len(handle.gathered) :
        LET items == ScrapingResultsProperty(handle.gathered[k]).items IN
        \E i \in 1..Len(items) : Len(Trim(TextOf(items[i].content))) > 0

C38_ContentBecomesContext ==
    (handle.pc = "returned" /\ GatheredContent) =>
        /\ Len(handle.validatedResults) > 0
        /\ handle.out[1].context # <<>>

(***************************************************************************)
(* C34  Every ScrapingResult served from cache by scrapeWebContent or      *)
(* gatherInformation was produced by an actual fetch or render at most     *)
(* 3600 seconds (one TTL) before it is served: writing a cache-served      *)
(* result back under the gatherer's key never extends the lifetime of      *)
(* scraped content beyond one TTL from its original scrape.                *)
(***************************************************************************)
C34_ServedWithinOneTtl ==
    \A i \in 1..Len(aged.served) :
        aged.served[i].at - aged.served[i].fetchedAt <= CACHE_DURATION

====
